---- MODULE Spec2Model ----
(***************************************************************************)
(* Model of the q2-proto client: the vanilla net-channel                   *)
(* (src/src/proto/netchan.rs), its message buffer                          *)
(* (src/src/proto/msg_buf.rs) and the session around it (src/src/lib.rs).  *)
(*                                                                         *)
(* Representation choices.                                                 *)
(*  - A wire word is a natural number below 2^WordBits.  The source uses   *)
(*    u32 words (WordBits = 32, HighBit = 0x80000000, SeqMask =            *)
(*    0x7FFFFFFF); the model keeps the same bit operations on a narrower   *)
(*    word so that the words are enumerable.  HighBit is always the top    *)
(*    bit of the word and SeqMask every bit below it.                      *)
(*  - A byte buffer is the sequence of the byte runs written to it, a run  *)
(*    being [id |-> what was written, len |-> how many bytes].  The        *)
(*    cursor position of the source is BufLen of that sequence, and        *)
(*    rewind() is the empty sequence (bytes beyond the cursor are never    *)
(*    read by the source).                                                 *)
(*  - A datagram is [hdr, qp, rel, unrel]: the header words that are       *)
(*    present (fewer than two = short datagram), the qport field, and the  *)
(*    body as the reliable part followed by the unreliable part.           *)
(***************************************************************************)
EXTENDS Integers, Sequences, FiniteSets, TLC

\* ---------------------------------------------------------------- bounds
\* width of a wire word in the model (u32 in the source)
WordBits == 4
\* transmit is enabled while outgoing_sequence is below this cap
MaxSeq == 3
\* largest sequence / ack number the environment puts on the wire
MaxIn == 2
\* number of payloads the application queues
NumPayloads == 2
\* transmit caps of the client and of the server in the two-endpoint specification
NetMaxSeq == 4
PeerMaxSeq == 3
\* datagrams the network holds in each direction; one sent beyond that is lost
NetCap == 2
\* the session's calls are enabled while message holds fewer runs than this
MaxMsgRuns == 4
\* pump transmits while the session's outgoing_sequence is below this
SessMaxSeq == 2
\* send_command is called while message holds fewer runs than this
MaxFillRuns == 9

\* the bytes after a SpawnBaseline op are at most this many
MaxEntBytes == 12

\* ------------------------------------------------------- program constants
MAX_WRITEABLE_SIZE == 4096
MAX_NET_STRING == 2048

\* 0x80000000 and 0x7FFFFFFF of netchan.rs, at the model's word width
HighBit == 2 ^ (WordBits - 1)
SeqMask == HighBit - 1
WordLimit == 2 * HighBit

\* ------------------------------------------------------------ bit helpers
RECURSIVE BitAnd(_, _)
BitAnd(a, b) ==
    IF a = 0 \/ b = 0 THEN 0
    ELSE (IF a % 2 = 1 /\ b % 2 = 1 THEN 1 ELSE 0) + 2 * BitAnd(a \div 2, b \div 2)

RECURSIVE BitOr(_, _)
BitOr(a, b) ==
    IF a = 0 THEN b
    ELSE IF b = 0 THEN a
    ELSE (IF a % 2 = 1 \/ b % 2 = 1 THEN 1 ELSE 0) + 2 * BitOr(a \div 2, b \div 2)

\* --------------------------------------------------------------- buffers
RECURSIVE BufLen(_)
BufLen(buf) == IF buf = <<>> THEN 0 ELSE Head(buf).len + BufLen(Tail(buf))

Run(id, len) == [id |-> id, len |-> len]

Datagram(hdr, qp, rel, unrel) == [hdr |-> hdr, qp |-> qp, rel |-> rel, unrel |-> unrel]

NoDatagram == Datagram(<<>>, <<>>, <<>>, <<>>)

\* ------------------------------------------------------- NetChanVanilla
NetChanVanilla_new(is_client, qport) ==
    [ message |-> <<>>,
      incoming_sequence |-> 0,
      incoming_acknowledged |-> 0,
      reliable_sequence |-> FALSE,
      incoming_reliable_acknowledged |-> FALSE,
      incoming_reliable_sequence |-> FALSE,
      last_sent_reliable_sequence |-> 0,
      outgoing_sequence |-> 1,
      is_client |-> is_client,
      qport |-> qport,
      is_reliable_ack_pending |-> FALSE,
      reliable_buf |-> <<>> ]

\* (w & 0x80000000) != 0
high_bit(w) == BitAnd(w, HighBit) # 0

\* w &= 0x7FFFFFFF
\* (low_bits_unmasked: the mask is forgotten)
low_bits_unmasked(w) == w

low_bits(w) == BitAnd(w, SeqMask)

\* both header words were read
header_ok(d) == Len(d.hdr) >= 2

\* if seq <= self.incoming_sequence { return false; }
\* (is_stale_strict: an equal sequence passes)
is_stale_strict(ch, seq) == seq < ch.incoming_sequence

is_stale(ch, seq) == seq <= ch.incoming_sequence

\* return false: nothing has been assigned yet
\* (reject_after_ack: the ack bit is recorded before the sequence test)
reject_after_ack(ch, d) ==
    [ chan |-> IF Len(d.hdr) >= 2
               THEN [ch EXCEPT !.incoming_reliable_acknowledged = high_bit(d.hdr[2])]
               ELSE ch,
      ret |-> FALSE ]

reject(ch, d) == [chan |-> ch, ret |-> FALSE]

\* if is_reliable_ack == self.reliable_sequence { self.reliable_buf.rewind() }
\* (ack_retires_never: the comparison is inverted)
ack_retires_never(ch, is_reliable_ack) == is_reliable_ack # ch.reliable_sequence

\* (ack_retires_always: every accepted packet rewinds reliable_buf)
ack_retires_always(ch, is_reliable_ack) == TRUE

ack_retires(ch, is_reliable_ack) == is_reliable_ack = ch.reliable_sequence

\* if is_reliable_message { self.is_reliable_ack_pending = true; ... }
\* (ack_pending_any: every accepted packet asks for an ack)
ack_pending_any(ch, is_reliable_message) == TRUE

ack_pending(ch, is_reliable_message) ==
    IF is_reliable_message THEN TRUE ELSE ch.is_reliable_ack_pending

\* ... self.incoming_reliable_sequence = !self.incoming_reliable_sequence
\* (reliable_toggle_set: the toggle is set instead of flipped)
reliable_toggle_set(ch, is_reliable_message) ==
    IF is_reliable_message THEN TRUE ELSE ch.incoming_reliable_sequence

reliable_toggle(ch, is_reliable_message) ==
    IF is_reliable_message THEN ~ch.incoming_reliable_sequence
    ELSE ch.incoming_reliable_sequence

process(ch, d) ==
    IF ~header_ok(d) THEN reject(ch, d)
    ELSE
      LET is_reliable_message == high_bit(d.hdr[1])
          is_reliable_ack == high_bit(d.hdr[2])
          seq == low_bits(d.hdr[1])
          seq_ack == low_bits(d.hdr[2])
      IN IF is_stale(ch, seq) THEN reject(ch, d)
         ELSE
           [ chan |->
               [ ch EXCEPT
                   !.incoming_reliable_acknowledged = is_reliable_ack,
                   !.reliable_buf =
                       IF ack_retires(ch, is_reliable_ack) THEN <<>> ELSE @,
                   !.incoming_sequence = seq,
                   !.incoming_acknowledged = seq_ack,
                   !.is_reliable_ack_pending = ack_pending(ch, is_reliable_message),
                   !.incoming_reliable_sequence = reliable_toggle(ch, is_reliable_message) ],
             ret |-> TRUE ]

\* the first test of transmit: the peer saw a later packet but not the payload
\* (resend_always: the same test without the comparison of the sequences)
resend_always(ch) ==
    ch.incoming_reliable_acknowledged # ch.reliable_sequence

resend_lost(ch) ==
    /\ ch.incoming_acknowledged > ch.last_sent_reliable_sequence
    /\ ch.incoming_reliable_acknowledged # ch.reliable_sequence

\* the second test of transmit: begin a new reliable payload
\* (absorbs_queued: the test of reliable_buf is forgotten)
absorbs_queued(ch) == BufLen(ch.message) > 0

absorbs(ch) == BufLen(ch.message) > 0 /\ BufLen(ch.reliable_buf) = 0

\* move message to reliable_buf, rewind message, flip the toggle
\* (begin_reliable_keep: the rewind of message is forgotten)
begin_reliable_keep(ch) ==
    [ch EXCEPT !.reliable_buf = ch.message,
               !.reliable_sequence = ~@]

begin_reliable(ch) ==
    [ch EXCEPT !.reliable_buf = ch.message,
               !.message = <<>>,
               !.reliable_sequence = ~@]

\* self.outgoing_sequence += 1
\* (next_outgoing_if_reliable: a sequence is consumed only with a payload in flight)
next_outgoing_if_reliable(ch) ==
    IF ch.reliable_buf # <<>> THEN (ch.outgoing_sequence + 1) % WordLimit
    ELSE ch.outgoing_sequence

next_outgoing(ch) == (ch.outgoing_sequence + 1) % WordLimit

HeaderLen(ch) == IF ch.is_client THEN 10 ELSE 8

\* transmit returns [chan, pkt, panic]; panic is TRUE when one of the
\* unwrap()s fails: the message does not fit reliable_buf, or the header
\* and the reliable payload do not fit the packet.
transmit(ch, data) ==
    LET absorb == absorbs(ch)
        should_send_reliable == resend_lost(ch) \/ absorb
        absorb_fails == absorb /\ BufLen(ch.message) > MAX_WRITEABLE_SIZE
        c1 == IF absorb THEN begin_reliable(ch) ELSE ch
        outgoing_seq == IF should_send_reliable
                        THEN BitOr(BitAnd(c1.outgoing_sequence, SeqMask), HighBit)
                        ELSE BitAnd(c1.outgoing_sequence, SeqMask)
        incoming_seq == IF c1.incoming_reliable_sequence
                        THEN BitOr(BitAnd(c1.incoming_sequence, SeqMask), HighBit)
                        ELSE BitAnd(c1.incoming_sequence, SeqMask)
        rel == IF should_send_reliable THEN c1.reliable_buf ELSE <<>>
        write_fails == should_send_reliable
                       /\ HeaderLen(c1) + BufLen(c1.reliable_buf) > MAX_WRITEABLE_SIZE
        pos == HeaderLen(c1) + BufLen(rel)
        unrel == IF MAX_WRITEABLE_SIZE - pos >= BufLen(data) /\ BufLen(data) > 0
                 THEN data ELSE <<>>
        c2 == [c1 EXCEPT
                 !.last_sent_reliable_sequence =
                     IF should_send_reliable THEN c1.outgoing_sequence ELSE @,
                 !.outgoing_sequence = next_outgoing(c1),
                 !.is_reliable_ack_pending = FALSE]
    IN IF absorb_fails \/ write_fails
       THEN [chan |-> ch, pkt |-> NoDatagram, panic |-> TRUE]
       ELSE [chan |-> c2,
             pkt |-> Datagram(<<outgoing_seq, incoming_seq>>,
                              IF c1.is_client THEN <<c1.qport>> ELSE <<>>,
                              rel, unrel),
             panic |-> FALSE]

should_transmit(ch) ==
    \/ ch.is_reliable_ack_pending
    \/ BufLen(ch.message) > 0
    \/ BufLen(ch.reliable_buf) > 0

\* ----------------------------------------------------------------- MsgBuf
\* a string offered to the buffer: what it says and how many bytes it has
Str(text, len) == [text |-> text, len |-> len]

write_u8(buf, id) == Append(buf, Run(id, 1))

write_all(buf, id, len) == IF len = 0 THEN buf ELSE Append(buf, Run(id, len))

\* write_string returns the buffer and whether the call returned Some(())
\* (write_string_short: the limit is taken one byte too low)
write_string_short(buf, str) ==
    IF str.len >= MAX_NET_STRING
    THEN [buf |-> write_u8(buf, "NUL"), ok |-> FALSE]
    ELSE [buf |-> write_u8(write_all(buf, str.text, str.len), "NUL"), ok |-> TRUE]

write_string(buf, str) ==
    IF str.len > MAX_NET_STRING
    THEN [buf |-> write_u8(buf, "NUL"), ok |-> FALSE]
    ELSE [buf |-> write_u8(write_all(buf, str.text, str.len), "NUL"), ok |-> TRUE]

\* ---------------------------------------------------------- Q2ProtoClient
\* The session is [connected, chan, last_precache_value, elapsed]: elapsed
\* is last_msg_sent_time.elapsed() in whole seconds, counted up to
\* KeepAliveSecs + 1 (all the source asks is whether it exceeds 2 seconds).
KeepAliveSecs == 2

Session(addr, c, ch, pre, el) ==
    [server_address |-> addr, connected |-> c, chan |-> ch,
     last_precache_value |-> pre, elapsed |-> el]

\* server is kept as given: "literal" when it is an IP address and a port,
\* "hostname" when it is a name that only the resolver understands
Q2ProtoClient_new(server, port) ==
    Session(server, FALSE, NetChanVanilla_new(TRUE, port), 0, 0)

\* the strings the session sends; `version` is the string given to new()
StrNew == Str("new", 3)
StrDisconnect == Str("disconnect", 10)
StrActoken == Str("actoken", 7)
VersionLen == 17
StrVersion == Str("version", 10 + VersionLen)
RECURSIVE DecLen(_)
DecLen(n) == IF n < 10 THEN 1 ELSE 1 + DecLen(n \div 10)

StrBegin(n) == Str("begin " \o ToString(n), 6 + DecLen(n))

\* (send_command_unchecked: the test of the connected flag is forgotten)
send_command_unchecked(s, cmd) ==
    LET w == write_string(write_u8(s.chan.message, "StringCmd"), cmd)
    IN [s |-> [s EXCEPT !.chan.message = w.buf], ok |-> w.ok]

send_command(s, cmd) ==
    IF ~s.connected THEN [s |-> s, ok |-> FALSE]
    ELSE LET w == write_string(write_u8(s.chan.message, "StringCmd"), cmd)
         IN [s |-> [s EXCEPT !.chan.message = w.buf], ok |-> w.ok]

send_result_command(s, cmd) ==
    IF ~s.connected THEN [s |-> s, ok |-> FALSE]
    ELSE LET w == write_string(
                      write_all(write_u8(s.chan.message, "StringCmd"), "7Fc ", 3), cmd)
         IN [s |-> [s EXCEPT !.chan.message = w.buf], ok |-> w.ok]

send_nop(s) == [s EXCEPT !.chan.message = write_u8(@, "Nop")]

\* A line of stuff-text is [kind, arg]:
\*   "version", "actoken", "cmd"  lines that begin with  cmd \x7Fc
\*   "badutf8"                    such a line whose rest is not UTF-8
\*   "precache"                   arg is the number after the word
\*   "precache_junk"              what follows the word is not a u32
\*   "precache_short"             the line is the bare word (8 bytes)
\*   "changing", "other"
Line(kind, arg) == [kind |-> kind, arg |-> arg]

\* check_stuffcmd returns [s, ret, panic]: bytes[9..] of an 8 byte line is
\* out of range
RECURSIVE check_stuffcmd(_, _)
check_stuffcmd(s, lines) ==
    IF lines = <<>> THEN [s |-> s, ret |-> TRUE, panic |-> FALSE]
    ELSE
      LET l == Head(lines)
      IN CASE l.kind = "badutf8" -> [s |-> s, ret |-> FALSE, panic |-> FALSE]
           [] l.kind = "version" ->
                check_stuffcmd(send_result_command(s, StrVersion).s, Tail(lines))
           [] l.kind = "actoken" ->
                check_stuffcmd(send_result_command(s, StrActoken).s, Tail(lines))
           [] l.kind = "precache_short" ->
                [s |-> s, ret |-> FALSE, panic |-> TRUE]
           [] l.kind \in {"precache", "precache_junk"} ->
                     LET n == IF l.kind = "precache_junk" THEN 0 ELSE l.arg
                         s1 == [s EXCEPT !.last_precache_value = n]
                         s2 == send_command(s1, StrBegin(n)).s
                     IN check_stuffcmd([s2 EXCEPT !.elapsed = 0], Tail(lines))
           [] OTHER -> check_stuffcmd(s, Tail(lines))

\* A command of the server's stream is [op, ok, lines]: the op byte, whether
\* the payload parser of the op returns Some, and the lines of a StuffText.
Cmd(op, ok, lines) == [op |-> op, ok |-> ok, lines |-> lines]

\* ServerToClientOps and its From<u8>: the bytes 1..24 are the ops of that
\* value, every other byte (0 included) is Invalid
OpBad == 0
OpInvalid == -1
OpDisconnect == 7
OpReconnect == 8
OpPrint == 10
OpStuffText == 11
OpServerData == 12
OpConfigString == 13
OpSpawnBaseline == 14
OpCenterPrint == 15

ServerToClientOps_from(nm) == IF nm \in 1..24 THEN nm ELSE OpInvalid

\* the arms of Disconnect and Reconnect: self.send_command("disconnect")
\* (on_disconnect_silent: the command is forgotten)
on_disconnect_silent(s) == s

on_disconnect(s) == send_command(s, StrDisconnect).s

\* parse_command returns [s, events, err, panic]; an event is the command
\* it was decoded from
RECURSIVE parse_command(_, _, _)

\* the arm gave None: break, and Ok(evts) is returned
\* (no_event_skipped: the loop goes on with the next command instead)
no_event_skipped(s, cmds, evts) == parse_command(s, Tail(cmds), evts)

no_event(s, cmds, evts) ==
    [s |-> s, events |-> evts, err |-> FALSE, panic |-> FALSE]

parse_command(s, cmds, evts) ==
    IF cmds = <<>> THEN [s |-> s, events |-> evts, err |-> FALSE, panic |-> FALSE]
    ELSE
      LET c == Head(cmds)
          cmd == ServerToClientOps_from(c.op)
      IN CASE cmd = OpBad ->
                [s |-> s, events |-> <<>>, err |-> TRUE, panic |-> FALSE]
           [] cmd \in {OpDisconnect, OpReconnect} ->
                parse_command(on_disconnect(s), Tail(cmds), Append(evts, c))
           [] cmd = OpStuffText ->
                LET r == check_stuffcmd(s, c.lines)
                IN IF r.panic
                   THEN [s |-> r.s, events |-> evts, err |-> FALSE, panic |-> TRUE]
                   ELSE IF r.ret
                   THEN parse_command(r.s, Tail(cmds), Append(evts, c))
                   ELSE no_event(r.s, cmds, evts)
           [] cmd \in {OpPrint, OpServerData, OpConfigString, OpSpawnBaseline} ->
                IF c.ok THEN parse_command(s, Tail(cmds), Append(evts, c))
                ELSE no_event(s, cmds, evts)
           [] cmd = OpCenterPrint ->
                parse_command(s, Tail(cmds), Append(evts, c))
           [] OTHER -> no_event(s, cmds, evts)

\* A connectionless answer is [kind, tokens]: kind "none" when no datagram
\* came (or recv failed), "noprefix" when it lacks the four 0xFF bytes,
\* "text" otherwise, with the words of the text.
\* A datagram offered to recv_connectionless is [kind, tokens, src]:
\*   kind  "none"      recv fails (nothing arrives before the read timeout)
\*         "noprefix"  the first four bytes are not 0xFF 0xFF 0xFF 0xFF
\*         "badutf8"   the prefix, then bytes that are no UTF-8 text
\*         "text"      the prefix, then the tokens separated by blanks
\*   src   "server" when it comes from the configured address, else "other"
Answer(kind, tokens) == [kind |-> kind, tokens |-> tokens, src |-> "server"]

Elsewhere(a) == [a EXCEPT !.src = "other"]

\* recv_connectionless returns [ok, tokens, panic]: not connected, the
\* source is compared with server_address.parse().unwrap(), which fails on
\* an address that is no literal
recv_connectionless(s, a) ==
    LET none == [ok |-> FALSE, tokens |-> <<>>, panic |-> FALSE]
    IN IF a.kind = "none" THEN none
       ELSE IF ~s.connected /\ s.server_address # "literal"
       THEN [ok |-> FALSE, tokens |-> <<>>, panic |-> TRUE]
       ELSE IF ~s.connected /\ a.src # "server" THEN none
       ELSE IF a.kind # "text" THEN none
       ELSE [ok |-> TRUE, tokens |-> a.tokens, panic |-> FALSE]

\* status returns what recv_connectionless does once oob_print succeeded
status(s, print, a) ==
    IF ~print THEN [ok |-> FALSE, tokens |-> <<>>, panic |-> FALSE]
    ELSE recv_connectionless(s, a)

\* challenge returns [ok, panic]: print is whether oob_print succeeds
challenge(s, print, a) ==
    IF ~print THEN [ok |-> FALSE, panic |-> FALSE]
    ELSE LET str == recv_connectionless(s, a)
         IN IF str.panic THEN [ok |-> FALSE, panic |-> TRUE]
            ELSE IF ~str.ok THEN [ok |-> FALSE, panic |-> FALSE]
            ELSE [ok |-> /\ Len(str.tokens) >= 3
                         /\ str.tokens[1] = "challenge"
                         /\ str.tokens[3] = "p=",
                  panic |-> FALSE]

\* parse_client_connect returns [s, ok, panic]
RECURSIVE any_ac(_)
any_ac(tokens) ==
    IF tokens = <<>> THEN FALSE
    ELSE IF Head(tokens) = "ac=" THEN TRUE ELSE any_ac(Tail(tokens))

parse_client_connect(s, a) ==
    LET data == recv_connectionless(s, a)
    IN IF data.panic THEN [s |-> s, ok |-> FALSE, panic |-> TRUE]
       ELSE IF ~data.ok THEN [s |-> s, ok |-> FALSE, panic |-> FALSE]
       ELSE IF data.tokens = <<>> \/ Head(data.tokens) # "client_connect"
       THEN [s |-> s, ok |-> FALSE, panic |-> FALSE]
       ELSE IF any_ac(Tail(data.tokens))
       THEN [s |-> [s EXCEPT !.connected = FALSE], ok |-> FALSE, panic |-> FALSE]
       ELSE [s |-> s, ok |-> TRUE, panic |-> FALSE]

\* connect returns [s, ok, panic]: io is [print, connect], whether oob_print
\* and socket.connect succeed; proto is the protocol number asked for
Vanilla == 34
R1Q2 == 35

\* the end of connect: send_command("new"); Some(())
connect_answered(p) ==
    IF p.panic THEN [s |-> p.s, ok |-> FALSE, panic |-> TRUE]
    ELSE [s |-> send_command(p.s, StrNew).s, ok |-> TRUE, panic |-> FALSE]

connect(s, proto, io, a) ==
    LET s0 == [s EXCEPT !.elapsed = 0]
    IN IF proto # Vanilla THEN [s |-> s0, ok |-> FALSE, panic |-> TRUE]
       ELSE IF ~io.print \/ ~io.connect THEN [s |-> s0, ok |-> FALSE, panic |-> FALSE]
       ELSE connect_answered(parse_client_connect([s0 EXCEPT !.connected = TRUE], a))

\* negotiate returns [s, ok, panic]: the challenge is asked for with cio
\* (whether its oob_print succeeds) and answered by ca; what connect
\* returns is dropped
negotiated(r) == [s |-> r.s, ok |-> ~r.panic, panic |-> r.panic]

negotiate_challenged(s, ch, proto, io, a) ==
    IF ch.panic THEN [s |-> s, ok |-> FALSE, panic |-> TRUE]
    ELSE IF ~ch.ok THEN [s |-> s, ok |-> FALSE, panic |-> FALSE]
    ELSE negotiated(connect(s, proto, io, a))

negotiate(s, cio, ca, proto, io, a) ==
    negotiate_challenged(s, challenge(s, cio, ca), proto, io, a)

\* One turn of pump's loop on the datagram d, as [s, ret, events, sent,
\* panic]: ret is "next" when the loop goes on and the error otherwise; io
\* is [recv, send], whether socket.recv and socket.send succeed.
PumpResult(s, ret, events, sent) ==
    [s |-> s, ret |-> ret, events |-> events, sent |-> sent, panic |-> ret = "panic"]

\* socket.send(transmit_data)?, then last_msg_sent_time = Instant::now()
pump_sent(s, t, events, io) ==
    IF t.panic THEN PumpResult(s, "panic", events, NoDatagram)
    ELSE IF ~io.send
    THEN PumpResult([s EXCEPT !.chan = t.chan], "SendError", events, NoDatagram)
    ELSE PumpResult([s EXCEPT !.chan = t.chan, !.elapsed = 0], "next", events, t.pkt)

\* if self.chan.should_transmit() { transmit ... }
pump_transmit(s, events, io) ==
    IF ~should_transmit(s.chan) THEN PumpResult(s, "next", events, NoDatagram)
    ELSE pump_sent(s, transmit(s.chan, <<>>), events, io)

\* if should_nop { send_nop; last_msg_sent_time = now }
pump_nop(s) ==
    IF s.elapsed > KeepAliveSecs THEN [send_nop(s) EXCEPT !.elapsed = 0] ELSE s

\* self.parse_command(&mut cur)? and what follows it
pump_parsed(p, io) ==
    IF p.panic THEN PumpResult(p.s, "panic", p.events, NoDatagram)
    ELSE IF p.err THEN PumpResult(p.s, "InvalidInput", p.events, NoDatagram)
    ELSE pump_transmit(pump_nop(p.s), p.events, io)

\* if self.chan.process(&mut cur) { parse_command }
pump_processed(s, r, d, io) ==
    pump_parsed(IF r.ret
                THEN parse_command([s EXCEPT !.chan = r.chan], d.rel \o d.unrel, <<>>)
                ELSE [s |-> [s EXCEPT !.chan = r.chan], events |-> <<>>,
                      err |-> FALSE, panic |-> FALSE],
                io)

pump_turn(s, d, io) ==
    IF ~io.recv THEN PumpResult(s, "RecvError", <<>>, NoDatagram)
    ELSE pump_processed(s, process(s.chan, d), d, io)

\* ------------------------------------------------------------------ state
VARIABLES
    chan,       \* the NetChanVanilla
    last,       \* the last operation: its name, its return value, its datagram
    queued,     \* how many payloads the application has appended to message
    panicked,   \* an unwrap() failed: the program is gone
    peer,       \* the NetChanVanilla at the other end (server role)
    c2s,        \* datagrams in flight from chan to peer
    s2c,        \* datagrams in flight from peer to chan
    sentLog,    \* the reliable payloads chan's transmit has emitted, in order
    recvLog,    \* the reliable payloads of the flagged packets peer's process accepted
    connected,  \* Q2ProtoClient.connected
    last_precache_value,
    elapsed,    \* last_msg_sent_time.elapsed(): 0, or KeepAliveSecs + 1 once Tick has run
    pc,         \* "idle", or "pump" while pump's loop runs
    out,        \* the last call of the session: its name, result, input, events, datagram sent
    server_address  \* Q2ProtoClient.server_address: "literal" or "hostname"

vars == <<chan, last, queued, panicked, peer, c2s, s2c, sentLog, recvLog,
          connected, last_precache_value, elapsed, pc, out, server_address>>

\* the part of the state the channel specifications leave alone
sessVars == <<connected, last_precache_value, elapsed, pc, out, server_address>>

Out(op, ret, arg, events, sent) ==
    [op |-> op, ret |-> ret, arg |-> arg, events |-> events, sent |-> sent]

SessInit ==
    /\ connected = FALSE
    /\ last_precache_value = 0
    /\ elapsed = 0
    /\ pc = "idle"
    /\ out = Out("new", "Some", <<>>, <<>>, NoDatagram)

\* the part of the state the single-channel specification leaves alone
netVars == <<peer, c2s, s2c, sentLog, recvLog>>

Last(op, ret, d) == [op |-> op, ret |-> ret, d |-> d]

QPort == 1

\* the byte lengths the application's payloads have
PayloadLens == {2}

\* the words the environment sends: a number and the high bit
InWords == {n + f * HighBit : n \in 0..MaxIn, f \in {0, 1}}

\* the ack words among them: the smallest and the largest number
InAcks == {n + f * HighBit : n \in {0, MaxIn}, f \in {0, 1}}

InHeaders == {<<>>, <<1>>}
                 \cup {<<s, a>> : s \in InWords, a \in InAcks}

Init ==
    /\ chan = NetChanVanilla_new(TRUE, QPort)
    /\ last = Last("new", FALSE, NoDatagram)
    /\ queued = 0
    /\ panicked = FALSE
    /\ peer = NetChanVanilla_new(FALSE, 0)
    /\ c2s = {}
    /\ s2c = {}
    /\ sentLog = <<>>
    /\ recvLog = <<>>
    /\ SessInit
    /\ server_address = "literal"

\* the application writes a payload into the public message buffer
Queue ==
    /\ ~panicked
    /\ queued < NumPayloads
    /\ \E len \in PayloadLens :
         chan' = [chan EXCEPT !.message = Append(@, Run(queued + 1, len))]
    /\ queued' = queued + 1
    /\ last' = Last("queue", TRUE, NoDatagram)
    /\ UNCHANGED <<panicked, netVars, sessVars>>

Process ==
    /\ ~panicked
    /\ \E hdr \in InHeaders :
         LET d == Datagram(hdr, <<>>, <<>>, <<>>)
             r == process(chan, d)
         IN /\ chan' = r.chan
            /\ last' = Last("process", r.ret, d)
    /\ UNCHANGED <<queued, panicked, netVars, sessVars>>

Transmit ==
    /\ ~panicked
    /\ chan.outgoing_sequence < MaxSeq
    /\ \E data \in {<<>>, <<Run(0, 1)>>} :
         LET r == transmit(chan, data)
         IN /\ chan' = r.chan
            /\ panicked' = r.panic
            /\ last' = IF r.panic THEN Last("panic", FALSE, NoDatagram)
                       ELSE Last("transmit", TRUE, r.pkt)
    /\ UNCHANGED <<queued, netVars, sessVars>>

Next == Queue \/ Process \/ Transmit

Spec == Init /\ [][Next]_vars

TypeOK ==
    /\ chan.incoming_sequence \in 0..SeqMask
    /\ chan.incoming_acknowledged \in 0..SeqMask
    /\ chan.outgoing_sequence \in 1..MaxSeq

\* =================================================================
\* Properties of the net-channel under Spec (any datagrams, any appends)
\* =================================================================

\* C2 as stated: while reliable_buf holds a payload whose toggle the peer
\* has not acknowledged, every transmit resends it (flag set, contents
\* attached).
C2_EveryTransmitResends ==
    [][ ( /\ last'.op = "transmit"
          /\ chan.reliable_buf # <<>>
          /\ chan.incoming_reliable_acknowledged # chan.reliable_sequence )
        => ( /\ last'.d.hdr[1] >= HighBit
             /\ last'.d.rel = chan.reliable_buf ) ]_vars

\* C2 amended: while reliable_buf holds a payload whose toggle the peer has
\* not acknowledged, a transmit resends it (flag set, contents attached)
\* exactly when the peer has acknowledged a packet newer than the last one
\* that carried the payload (incoming_acknowledged >
\* last_sent_reliable_sequence); any other transmit carries no reliable
\* payload; either way reliable_buf keeps the payload.
C2_ResendsWhenLost ==
    [][ ( /\ last'.op = "transmit"
          /\ chan.reliable_buf # <<>>
          /\ chan.incoming_reliable_acknowledged # chan.reliable_sequence )
        => /\ chan'.reliable_buf = chan.reliable_buf
           /\ IF chan.incoming_acknowledged > chan.last_sent_reliable_sequence
              THEN /\ last'.d.hdr[1] >= HighBit
                   /\ last'.d.rel = chan.reliable_buf
              ELSE /\ last'.d.hdr[1] < HighBit
                   /\ last'.d.rel = <<>> ]_vars

\* a transmit has just resent the payload in flight: it carried a reliable
\* payload although it did not absorb the (still non-empty) message
C2_Witness ==
    /\ last.op = "transmit"
    /\ last.d.rel # <<>>
    /\ last.d.rel = chan.reliable_buf
    /\ chan.message # <<>>

\* C3: no new reliable payload begins while one is in flight.  A transmit
\* that finds reliable_buf non-empty leaves reliable_sequence, message and
\* reliable_buf alone; message is emptied only by a transmit that finds
\* reliable_buf empty and moves message into it; and a non-empty
\* reliable_buf changes only by being emptied when process accepts a packet
\* whose ack bit equals reliable_sequence.
C3_NoNewPayloadInFlight ==
    [][ /\ ( last'.op = "transmit" /\ chan.reliable_buf # <<>> )
           => /\ chan'.reliable_sequence = chan.reliable_sequence
              /\ chan'.message = chan.message
              /\ chan'.reliable_buf = chan.reliable_buf
        /\ ( chan.message # <<>> /\ chan'.message # chan.message /\ last'.op # "queue" )
           => /\ last'.op = "transmit"
              /\ chan.reliable_buf = <<>>
              /\ chan'.message = <<>>
              /\ chan'.reliable_buf = chan.message
              /\ chan'.reliable_sequence # chan.reliable_sequence
        /\ ( chan.reliable_buf # <<>> /\ chan'.reliable_buf # chan.reliable_buf )
           => /\ last'.op = "process"
              /\ last'.ret
              /\ (last'.d.hdr[2] >= HighBit) = chan.reliable_sequence
              /\ chan'.reliable_buf = <<>> ]_vars

\* a transmit ran with a payload in flight and more data queued
C3_Witness ==
    /\ last.op = "transmit"
    /\ chan.reliable_buf # <<>>
    /\ chan.message # <<>>

\* C4: process accepts a datagram with a complete header iff the low bits
\* of its sequence word exceed incoming_sequence; incoming_sequence grows
\* strictly with every accepted datagram and stays put otherwise.
C4_AcceptsOnlyNewer ==
    [][ last'.op = "process"
        => /\ last'.ret = ( /\ Len(last'.d.hdr) >= 2
                            /\ (last'.d.hdr[1] % HighBit) > chan.incoming_sequence )
           /\ last'.ret => chan'.incoming_sequence > chan.incoming_sequence
           /\ ~last'.ret => chan'.incoming_sequence = chan.incoming_sequence ]_vars

\* a duplicate or older sequence was rejected after an earlier acceptance
C4_Witness ==
    /\ last.op = "process"
    /\ ~last.ret
    /\ Len(last.d.hdr) = 2
    /\ chan.incoming_sequence > 0
    /\ (last.d.hdr[1] % HighBit) <= chan.incoming_sequence

\* C5: a datagram rejected by process (stale or duplicate sequence, or a
\* short header) leaves every field of the channel unchanged.
C5_RejectChangesNothing ==
    [][ ( last'.op = "process" /\ ~last'.ret ) => chan' = chan ]_vars

\* a stale datagram whose ack bit differs from the recorded one was
\* rejected while a payload was in flight
C5_Witness ==
    /\ last.op = "process"
    /\ ~last.ret
    /\ Len(last.d.hdr) = 2
    /\ (last.d.hdr[2] >= HighBit) # chan.incoming_reliable_acknowledged
    /\ chan.reliable_buf # <<>>

C7_OutgoingSequence ==
    /\ chan.outgoing_sequence = 1
    /\ [][ IF last'.op = "transmit"
           THEN chan'.outgoing_sequence = chan.outgoing_sequence + 1
           ELSE chan'.outgoing_sequence = chan.outgoing_sequence ]_vars

\* two transmits were made, the last one without a reliable payload
C7_Witness ==
    /\ last.op = "transmit"
    /\ last.d.rel = <<>>
    /\ last.d.hdr[1] < HighBit
    /\ chan.outgoing_sequence = 3

\* C8 as stated: with arbitrary seq/ack words, reliable_buf is empty or the
\* recorded ack bit differs from reliable_sequence.
C8_EmptyOrUnacked ==
    \/ chan.reliable_buf = <<>>
    \/ chan.incoming_reliable_acknowledged # chan.reliable_sequence

\* C8 amended: with arbitrary seq/ack words, "reliable_buf is empty or the
\* recorded ack bit differs from reliable_sequence" holds after every
\* datagram process accepts and keeps holding until a transmit begins a new
\* payload; that transmit establishes it only if the recorded ack bit
\* equalled reliable_sequence before it (the last accepted ack echoed the
\* previous toggle).
C8_EmptyOrUnackedSinceAck ==
    [][ /\ ( last'.op = "process" /\ last'.ret ) => C8_EmptyOrUnacked'
        /\ ( C8_EmptyOrUnacked /\ chan'.reliable_sequence = chan.reliable_sequence )
           => C8_EmptyOrUnacked'
        /\ ( /\ chan'.reliable_sequence # chan.reliable_sequence
             /\ chan.incoming_reliable_acknowledged = chan.reliable_sequence )
           => C8_EmptyOrUnacked' ]_vars

\* a datagram that does not acknowledge the payload in flight was accepted
C8_Witness ==
    /\ last.op = "process"
    /\ last.ret
    /\ chan.reliable_buf # <<>>
    /\ chan.incoming_reliable_acknowledged # chan.reliable_sequence
    /\ chan.incoming_acknowledged > 0

\* =================================================================
\* Two endpoints: the client channel `chan` and a server channel `peer`
\* exchange the datagrams built by transmit over a network that loses and
\* reorders them.  The application queues its payloads one after another:
\* the next one when the message buffer has been absorbed.
\* =================================================================

\* the payload the application queues as its i-th
Payload(i) == <<Run(i, 2)>>

PeerInit ==
    /\ chan = NetChanVanilla_new(TRUE, QPort)
    /\ peer = NetChanVanilla_new(FALSE, 0)
    /\ c2s = {}
    /\ s2c = {}
    /\ sentLog = <<>>
    /\ recvLog = <<>>
    /\ last = Last("new", FALSE, NoDatagram)
    /\ queued = 0
    /\ panicked = FALSE
    /\ SessInit
    /\ server_address = "literal"

PeerQueue ==
    /\ queued < NumPayloads
    /\ chan.message = <<>>
    /\ chan' = [chan EXCEPT !.message = Payload(queued + 1)]
    /\ queued' = queued + 1
    /\ last' = Last("queue", TRUE, NoDatagram)
    /\ UNCHANGED <<peer, c2s, s2c, sentLog, recvLog, panicked, sessVars>>

ClientTransmit ==
    /\ chan.outgoing_sequence < NetMaxSeq
    /\ LET r == transmit(chan, <<>>)
       IN /\ ~r.panic
          /\ chan' = r.chan
          /\ c2s' = IF Cardinality(c2s) < NetCap THEN c2s \cup {r.pkt} ELSE c2s
          /\ sentLog' = IF r.pkt.hdr[1] >= HighBit THEN Append(sentLog, r.pkt.rel)
                        ELSE sentLog
          /\ last' = Last("transmit", TRUE, r.pkt)
    /\ UNCHANGED <<peer, s2c, recvLog, queued, panicked, sessVars>>

ServerTransmit ==
    /\ peer.outgoing_sequence < PeerMaxSeq
    /\ LET r == transmit(peer, <<>>)
       IN /\ ~r.panic
          /\ peer' = r.chan
          /\ s2c' = IF Cardinality(s2c) < NetCap THEN s2c \cup {r.pkt} ELSE s2c
    /\ last' = Last("peer", TRUE, NoDatagram)
    /\ UNCHANGED <<chan, c2s, sentLog, recvLog, queued, panicked, sessVars>>

ClientReceive ==
    /\ \E d \in s2c :
         LET r == process(chan, d)
         IN /\ chan' = r.chan
            /\ s2c' = s2c \ {d}
            /\ last' = Last("process", r.ret, d)
    /\ UNCHANGED <<peer, c2s, sentLog, recvLog, queued, panicked, sessVars>>

ServerReceive ==
    /\ \E d \in c2s :
         /\ peer' = process(peer, d).chan
         /\ c2s' = c2s \ {d}
         /\ recvLog' = IF process(peer, d).ret /\ high_bit(d.hdr[1])
                        THEN Append(recvLog, d.rel) ELSE recvLog
    /\ last' = Last("peer", TRUE, NoDatagram)
    /\ UNCHANGED <<chan, s2c, sentLog, queued, panicked, sessVars>>

Lose ==
    /\ \/ \E d \in c2s : c2s' = c2s \ {d} /\ s2c' = s2c
       \/ \E d \in s2c : s2c' = s2c \ {d} /\ c2s' = c2s
    /\ last' = Last("lose", TRUE, NoDatagram)
    /\ UNCHANGED <<chan, peer, sentLog, recvLog, queued, panicked, sessVars>>

PeerNext ==
    \/ PeerQueue
    \/ ClientTransmit
    \/ ServerTransmit
    \/ ClientReceive
    \/ ServerReceive
    \/ Lose

SpecPeer == PeerInit /\ [][PeerNext]_vars

\* the reliable payloads of a log without their immediate repetitions
RECURSIVE Distinct(_)
Distinct(log) ==
    IF Len(log) <= 1 THEN log
    ELSE LET rest == Distinct(Tail(log))
         IN IF Head(log) = Head(rest) THEN rest ELSE <<Head(log)>> \o rest

\* the number of payloads the channel has begun to send
Begun == IF chan.message = <<>> THEN queued ELSE queued - 1

PeerEchoKeepsC8 ==
    \/ chan.reliable_buf = <<>>
    \/ chan.incoming_reliable_acknowledged # chan.reliable_sequence

\* =================================================================
\* The session: connect, send_command and pump on one Q2ProtoClient, the
\* server's datagrams and the socket's failures chosen by the environment.
\* pump's loop takes one datagram per step (pc = "pump" between them).
\* =================================================================

TheSession == Session(server_address, connected, chan, last_precache_value, elapsed)

SetSession(s) ==
    /\ connected' = s.connected
    /\ chan' = s.chan
    /\ last_precache_value' = s.last_precache_value
    /\ elapsed' = s.elapsed

\* the answers to connect
Answers ==
    { Answer("none", <<>>), Answer("noprefix", <<>>),
      Answer("text", <<>>),
      Answer("text", <<"print">>),
      Answer("text", <<"client_connect">>),
      Answer("text", <<"client_connect", "map=">>),
      Answer("text", <<"client_connect", "nc=", "ac=">>) }

\* the strings the application sends
UserCmds == { Str("say", 3), Str("long", MAX_NET_STRING + 1) }

\* the stuff-texts and commands the server sends
StuffTexts ==
    { <<Line("version", 0)>>, <<Line("actoken", 0)>>, <<Line("cmd", 0)>>,
      <<Line("badutf8", 0)>>, <<Line("changing", 0)>>, <<Line("other", 0)>>,
      <<Line("precache", 1)>>, <<Line("precache_junk", 0)>>,
      <<Line("precache_short", 0)>>,
      <<Line("precache", 1), Line("version", 0)>> }

CoreCmds ==
    { Cmd(0, TRUE, <<>>), Cmd(6, TRUE, <<>>), Cmd(OpDisconnect, TRUE, <<>>),
      Cmd(OpPrint, TRUE, <<>>) }

ServerCmds ==
    CoreCmds
    \cup { Cmd(OpReconnect, TRUE, <<>>), Cmd(OpPrint, FALSE, <<>>),
           Cmd(OpServerData, TRUE, <<>>), Cmd(OpConfigString, TRUE, <<>>),
           Cmd(OpSpawnBaseline, FALSE, <<>>), Cmd(OpCenterPrint, TRUE, <<>>),
           Cmd(20, TRUE, <<>>), Cmd(255, TRUE, <<>>) }
    \cup { Cmd(OpStuffText, TRUE, l) : l \in StuffTexts }

ServerBodies ==
    {<<>>} \cup {<<c>> : c \in ServerCmds}
           \cup {<<c, Cmd(OpDisconnect, TRUE, <<>>)>> : c \in CoreCmds}

\* the server's datagrams: one too short for a header (it has no body), and
\* the bodies under the headers
ServerHeaders ==
    {<<w, a>> : w \in {1, MaxIn + HighBit}, a \in {0, MaxIn + HighBit}}

\* a connectionless datagram of the server (a print): its first four bytes
\* 0xFF 0xFF 0xFF 0xFF are read as the first header word, the four
\* characters after them (ASCII: the high bit is clear) as the second, and
\* the next character as an op byte
OobPrefix == WordLimit - 1

OobText == SeqMask - 1

OobDatagram == Datagram(<<OobPrefix, OobText>>, <<>>, <<Cmd(116, TRUE, <<>>)>>, <<>>)

\* a body of core commands comes under every header; a body of one other
\* command under the headers of a first packet and of a flagged later one
HeadersOf(body) ==
    IF \A i \in 1..Len(body) : body[i] \in CoreCmds
    THEN ServerHeaders
    ELSE {<<1, 0>>, <<MaxIn + HighBit, MaxIn + HighBit>>}

ServerDatagrams ==
    {NoDatagram, OobDatagram}
    \cup UNION {{Datagram(hdr, <<>>, body, <<>>) : hdr \in HeadersOf(body)} :
                  body \in ServerBodies}

SessionInit ==
    /\ chan = NetChanVanilla_new(TRUE, QPort)
    /\ last = Last("new", FALSE, NoDatagram)
    /\ queued = 0
    /\ panicked = FALSE
    /\ peer = NetChanVanilla_new(FALSE, 0)
    /\ c2s = {}
    /\ s2c = {}
    /\ sentLog = <<>>
    /\ recvLog = <<>>
    /\ SessInit
    /\ server_address \in {"literal", "hostname"}

\* what the calls of the session leave alone
chanVars == <<last, queued, peer, c2s, s2c, sentLog, recvLog, server_address>>

\* the state after a call of the session that returned r, and its record
Returned(op, r, ret, arg) ==
    /\ SetSession(r.s)
    /\ out' = Out(op, ret, arg, <<>>, NoDatagram)

Connected(r, a) ==
    /\ Returned("connect", r,
                IF r.panic THEN "panic" ELSE IF r.ok THEN "Some" ELSE "None", a)
    /\ panicked' = r.panic

IoOk == [print |-> TRUE, connect |-> TRUE]

\* connect(challenge, Vanilla, userinfo) with both socket calls succeeding
Connect ==
    /\ ~panicked
    /\ pc = "idle"
    /\ Len(chan.message) + 3 < MaxMsgRuns
    /\ \E a \in Answers : Connected(connect(TheSession, Vanilla, IoOk, a), a)
    /\ UNCHANGED <<pc, chanVars>>

\* connect with oob_print or socket.connect failing: no answer is read
ConnectIoFails ==
    /\ ~panicked
    /\ pc = "idle"
    /\ \E io \in [print : BOOLEAN, connect : BOOLEAN] \ {IoOk} :
         Connected(connect(TheSession, Vanilla, io, Answer("none", <<>>)),
                   Answer("none", <<>>))
    /\ UNCHANGED <<pc, chanVars>>

\* connect with another protocol than Vanilla: assert_eq! fails
ConnectNotVanilla ==
    /\ ~panicked
    /\ pc = "idle"
    /\ Connected(connect(TheSession, R1Q2, IoOk, Answer("none", <<>>)),
                 Answer("none", <<>>))
    /\ UNCHANGED <<pc, chanVars>>

\* the answers to getchallenge
GoodChallenge == Answer("text", <<"challenge", "1", "p=">>)

ChallengeAnswers ==
    { Answer("none", <<>>), Answer("noprefix", <<>>), Answer("badutf8", <<>>),
      Answer("text", <<>>),
      Answer("text", <<"print">>),
      Answer("text", <<"challenge">>),
      Answer("text", <<"challenge", "1">>),
      Answer("text", <<"challenge", "1", "x">>),
      GoodChallenge, Elsewhere(GoodChallenge),
      Elsewhere(Answer("noprefix", <<>>)) }

\* what the socket hands over of them: once it is connected to the server,
\* datagrams from other addresses are not delivered
Offered(answers) == {a \in answers : a.src = "server" \/ ~connected}

Challenged(r, a) ==
    /\ out' = Out("challenge",
                  IF r.panic THEN "panic" ELSE IF r.ok THEN "Some" ELSE "None",
                  a, <<>>, NoDatagram)
    /\ panicked' = r.panic

\* challenge(): getchallenge is sent and the answer read
Challenge ==
    /\ ~panicked
    /\ pc = "idle"
    /\ \E print \in BOOLEAN, a \in Offered(ChallengeAnswers) :
         Challenged(challenge(TheSession, print, a), a)
    /\ UNCHANGED <<connected, chan, last_precache_value, elapsed, pc, chanVars>>

\* the datagrams that may answer a status: none, one without the prefix,
\* one that is not UTF-8, the server's answer, and datagrams of another
\* address
StatusAnswers ==
    { Answer("none", <<>>), Answer("noprefix", <<>>), Answer("badutf8", <<>>),
      Answer("text", <<"print">>),
      Elsewhere(Answer("text", <<"print">>)),
      Elsewhere(Answer("noprefix", <<>>)) }

\* status(): status is sent and the answer read
Status ==
    /\ ~panicked
    /\ pc = "idle"
    /\ \E print \in BOOLEAN, a \in Offered(StatusAnswers) :
         LET r == status(TheSession, print, a)
         IN /\ out' = Out("status",
                          IF r.panic THEN "panic"
                          ELSE IF r.ok THEN "Some" ELSE "None",
                          a, <<>>, NoDatagram)
            /\ panicked' = r.panic
    /\ UNCHANGED <<connected, chan, last_precache_value, elapsed, pc, chanVars>>

Negotiated(r, a) ==
    /\ Returned("negotiate", r,
                IF r.panic THEN "panic" ELSE IF r.ok THEN "Some" ELSE "None", a)
    /\ panicked' = r.panic

\* negotiate(Vanilla, userinfo) with the challenge granted: the connect is
\* answered by a
Negotiate ==
    /\ ~panicked
    /\ pc = "idle"
    /\ Len(chan.message) + 3 < MaxMsgRuns
    /\ \E a \in Answers :
         Negotiated(negotiate(TheSession, TRUE, GoodChallenge, Vanilla, IoOk, a),
                    [challenge |-> GoodChallenge, answer |-> a])
    /\ UNCHANGED <<pc, chanVars>>

\* negotiate with another answer to getchallenge, or none
NegotiateUnchallenged ==
    /\ ~panicked
    /\ pc = "idle"
    /\ Len(chan.message) + 3 < MaxMsgRuns
    /\ \E ca \in Offered(ChallengeAnswers \ {GoodChallenge}) :
         Negotiated(negotiate(TheSession, TRUE, ca, Vanilla, IoOk, Answer("none", <<>>)),
                    [challenge |-> ca, answer |-> Answer("none", <<>>)])
    /\ UNCHANGED <<pc, chanVars>>

SendCommand ==
    /\ ~panicked
    /\ pc = "idle"
    /\ Len(chan.message) + 3 < MaxMsgRuns
    /\ \E cmd \in UserCmds :
         LET r == send_command(TheSession, cmd)
         IN Returned("send_command", r, IF r.ok THEN "Some" ELSE "None", cmd)
    /\ UNCHANGED <<pc, panicked, chanVars>>

\* pump is called: not connected is an error, otherwise the loop begins (out
\* keeps what the timer showed at that moment)
PumpEnter ==
    /\ ~panicked
    /\ pc = "idle"
    /\ IF ~connected
       THEN /\ out' = Out("pump", "NotConnected", <<>>, <<>>, NoDatagram)
            /\ pc' = "idle"
       ELSE /\ out' = Out("pump", "enter", elapsed, <<>>, NoDatagram)
            /\ pc' = "pump"
    /\ UNCHANGED <<connected, chan, last_precache_value, elapsed, panicked, chanVars>>

\* the state after a turn of pump's loop that ended as r
Pumped(r, d) ==
    /\ SetSession(r.s)
    /\ panicked' = r.panic
    /\ pc' = IF r.ret = "next" THEN "pump" ELSE "idle"
    /\ out' = Out("pump", r.ret, d, r.events, r.sent)

\* peek finds a datagram and recv returns it: one turn of the loop
PumpTurnOf(d) ==
    /\ ~panicked
    /\ pc = "pump"
    /\ Len(chan.message) < MaxMsgRuns
    /\ chan.outgoing_sequence < SessMaxSeq
    /\ \E send \in BOOLEAN :
         Pumped(pump_turn(TheSession, d, [recv |-> TRUE, send |-> send]), d)
    /\ UNCHANGED chanVars

PumpTurn == \E d \in ServerDatagrams : PumpTurnOf(d)

\* peek finds a datagram and recv fails: pump returns the error
PumpRecvFails ==
    /\ ~panicked
    /\ pc = "pump"
    /\ Pumped(pump_turn(TheSession, NoDatagram, [recv |-> FALSE, send |-> TRUE]),
              NoDatagram)
    /\ UNCHANGED chanVars

\* the events that pump's return value Ok(()) carries: the unit value has none
UnitEvents == <<>>

\* peek finds nothing (the read timeout passed): pump returns Ok(())
PumpDone ==
    /\ ~panicked
    /\ pc = "pump"
    /\ pc' = "idle"
    /\ out' = Out("pump", "Ok", <<>>, UnitEvents, NoDatagram)
    /\ UNCHANGED <<connected, chan, last_precache_value, elapsed, panicked, chanVars>>

\* time passes until more than KeepAliveSecs seconds have elapsed
Tick ==
    /\ ~panicked
    /\ elapsed <= KeepAliveSecs
    /\ elapsed' = KeepAliveSecs + 1
    /\ UNCHANGED <<connected, chan, last_precache_value, pc, out, panicked, chanVars>>

SessionNext ==
    \/ Connect
    \/ ConnectIoFails
    \/ ConnectNotVanilla
    \/ Challenge
    \/ Status
    \/ Negotiate
    \/ NegotiateUnchallenged
    \/ SendCommand
    \/ PumpEnter
    \/ PumpTurn
    \/ PumpRecvFails
    \/ PumpDone
    \/ Tick

SpecSession == SessionInit /\ [][SessionNext]_vars

SessionTypeOK ==
    /\ connected \in BOOLEAN
    /\ pc \in {"idle", "pump"}
    /\ elapsed \in 0..(KeepAliveSecs + 1)
    /\ last_precache_value \in Nat

\* the events of the last call hold a Disconnect
RECURSIVE HasOp(_, _)
HasOp(events, op) ==
    IF events = <<>> THEN FALSE
    ELSE IF ServerToClientOps_from(Head(events).op) = op THEN TRUE
    ELSE HasOp(Tail(events), op)

\* C9: A connected session becomes disconnected on receiving the Disconnect
\* op: after a turn of pump decodes a datagram that holds op 7, the session
\* is not connected.  The code queues the string "disconnect" and leaves
\* connected as it is, so this does not hold.
C9_DisconnectOpDisconnects ==
    (out.op = "pump" /\ HasOp(out.events, OpDisconnect)) => ~connected

\* C10: The session is connected after the handshake only if a successful
\* client_connect response was received: when the answer to connect is
\* absent or does not begin with the token client_connect, connect fails
\* and the session is not connected afterwards.  The code sets connected
\* before it reads the answer and ignores what parse_client_connect
\* returns, so this does not hold.
C10_NoClientConnectFails ==
    (/\ out.op = "connect"
     /\ out.ret # "panic"
     /\ \/ out.arg.kind # "text"
        \/ out.arg.tokens = <<>>
        \/ Head(out.arg.tokens) # "client_connect")
    => (out.ret = "None" /\ ~connected)

\* the answer begins with client_connect and holds an ac= token
AcAnswer(a) ==
    /\ a.kind = "text"
    /\ a.tokens # <<>>
    /\ Head(a.tokens) = "client_connect"
    /\ any_ac(Tail(a.tokens))

\* the last call was a connect, or a negotiate that got its challenge, and
\* the server's answer to connect was refused for anti-cheat
AcRefused(o) ==
    \/ o.op = "connect" /\ o.ret # "panic" /\ AcAnswer(o.arg)
    \/ /\ o.op = "negotiate"
       /\ o.ret # "panic"
       /\ o.arg.challenge = GoodChallenge
       /\ AcAnswer(o.arg.answer)

\* C11: When the client_connect response holds a token that starts with
\* ac=, the session is disconnected afterwards, connect and negotiate do
\* not report success, and the command new is not queued.  The code drops
\* what parse_client_connect returns and ends connect with Some(()), so
\* the part about the reported result does not hold.
C11_AcFailsHandshake ==
    [][AcRefused(out')
       => /\ ~connected'
          /\ out'.ret = "None"
          /\ chan'.message = chan.message]_vars

\* what does hold of that case: the session is disconnected and nothing is
\* queued
AcDisconnectsAndQueuesNothing ==
    [][AcRefused(out') => (~connected' /\ chan'.message = chan.message)]_vars

AcRefusedReached == AcRefused(out) /\ ~connected /\ out.ret = "Some"

\* the fields of the session and of its channel
sessionState == <<connected, chan, last_precache_value, elapsed>>

\* C12: While the session is not connected, pump returns the not-connected
\* error and send_command fails; neither does any I/O (pump's loop is not
\* entered, nothing is sent) nor changes the session or the channel, so
\* nothing is appended to message.
C12_NotConnectedDoesNothing ==
    [][(~connected /\ (PumpEnter \/ SendCommand))
       => /\ out'.ret = IF out'.op = "pump" THEN "NotConnected" ELSE "None"
          /\ pc' = "idle"
          /\ out'.sent = NoDatagram
          /\ UNCHANGED sessionState]_vars

C12_Witness ==
    /\ ~connected
    /\ out.op = "send_command"
    /\ out.arg = Str("say", 3)
    /\ out.ret = "None"
    /\ chan.message = <<>>

C12_WitnessPump == ~connected /\ out.op = "pump" /\ out.ret = "NotConnected"

\* a turn of pump's loop on a datagram that process accepts:
\* the step is a turn of pump's loop on the datagram out'.arg (the calls
\* that are no turn record other results) and process accepted it
AcceptedTurn ==
    /\ pc = "pump"
    /\ out'.op = "pump"
    /\ out'.ret \notin {"Ok", "RecvError", "enter", "NotConnected"}
    /\ PumpTurnOf(out'.arg)
    /\ process(chan, out'.arg).ret

\* after the commands that gave the events, the next byte decoded is op
NextOpIs(cmds, events, op) ==
    /\ Len(events) < Len(cmds)
    /\ cmds[Len(events) + 1].op = op

\* C13: Bad (op byte 0) is a hard protocol error: when op byte 0 is the
\* next command read of an accepted datagram, parse_command returns an
\* error and pump returns it.  From<u8> maps byte 0 to Invalid, not to Bad,
\* so decoding just stops and pump goes on: this does not hold.
C13_BadOpIsError ==
    [][(AcceptedTurn /\ NextOpIs(out'.arg.rel, out'.events, OpBad))
       => out'.ret = "InvalidInput"]_vars

\* what send_command("disconnect") appends for each Disconnect and Reconnect
\* among the events
RECURSIVE DisconnectReplies(_)
DisconnectReplies(events) ==
    IF events = <<>> THEN <<>>
    ELSE (IF Head(events).op \in {OpDisconnect, OpReconnect}
          THEN <<Run("StringCmd", 1), Run("disconnect", 10), Run("NUL", 1)>>
          ELSE <<>>) \o DisconnectReplies(Tail(events))

NoStuffText(cmds) == \A i \in 1..Len(cmds) : cmds[i].op # OpStuffText

\* C14: On decoding op 7 (Disconnect) or op 8 (Reconnect) in an accepted
\* datagram, the StringCmd byte and the NUL-terminated string disconnect are
\* appended to message, the event is emitted and decoding goes on with the
\* next command.  Checked on the turns whose datagram holds no stuff-text
\* (which appends replies of its own): what the turn leaves queued (in
\* message, or in reliable_buf when the turn's transmit absorbed it) is the
\* old message, one disconnect command per such event in order, and the
\* keep-alive Nop if one was due; the events are the commands up to where
\* decoding stopped, and it never stops at a Disconnect or a Reconnect.
C14_DisconnectQueuesAndContinues ==
    [][(AcceptedTurn /\ out'.ret # "panic" /\ NoStuffText(out'.arg.rel))
       => LET left == IF chan'.reliable_sequence # chan.reliable_sequence
                      THEN chan'.reliable_buf ELSE chan'.message
              want == chan.message \o DisconnectReplies(out'.events)
              n == Len(out'.events)
          IN /\ left \in {want, Append(want, Run("Nop", 1))}
             /\ n <= Len(out'.arg.rel)
             /\ out'.events = SubSeq(out'.arg.rel, 1, n)
             /\ n < Len(out'.arg.rel)
                  => out'.arg.rel[n + 1].op \notin {OpDisconnect, OpReconnect}]_vars

\* a Print and then a Disconnect were decoded in one datagram and the
\* command is queued
C14_Witness ==
    /\ out.op = "pump"
    /\ Len(out.events) = 2
    /\ out.events[1].op = OpPrint
    /\ out.events[2].op = OpDisconnect
    /\ out.ret = "next"
    /\ out.sent.rel = <<Run("StringCmd", 1), Run("new", 3), Run("NUL", 1),
                        Run("StringCmd", 1), Run("disconnect", 10), Run("NUL", 1)>>

RECURSIVE HasRun(_, _)
HasRun(buf, id) ==
    IF buf = <<>> THEN FALSE
    ELSE IF Head(buf).id = id THEN TRUE ELSE HasRun(Tail(buf), id)

\* C15: Whenever the session is connected and more than 2 seconds have
\* passed since the last outbound datagram, a call to pump issues a single
\* datagram that carries a Nop and resets the keep-alive timer.  Stated of
\* the two ways a call goes on: a call entered with the timer above 2
\* seconds does not return Ok before a turn of its loop has run, and a turn
\* that finds the timer above 2 seconds and ends without an error sends a
\* datagram that carries the Nop and leaves the timer at 0.  The code looks
\* at the timer only after a datagram was received, and the Nop waits in
\* message while an earlier reliable payload is unacknowledged, so neither
\* holds.
C15_PumpKeepsAlive ==
    [][/\ PumpDone => ~(out.ret = "enter" /\ out.arg > KeepAliveSecs)
       /\ (PumpTurn /\ elapsed > KeepAliveSecs /\ out'.ret = "next")
            => (HasRun(out'.sent.rel, "Nop") /\ elapsed' = 0)]_vars

\* the first half alone: pump returns Ok with nothing sent although the
\* timer was above 2 seconds when it was called
IdlePumpKeepsAlive ==
    [][PumpDone => ~(out.ret = "enter" /\ out.arg > KeepAliveSecs)]_vars

\* what the code does keep: a turn that sends a datagram leaves the timer
\* at 0, and a turn without stuff-text that finds the timer above 2 seconds
\* queues a Nop
KeepAliveOnTurn ==
    [][(PumpTurn /\ out'.ret = "next")
       => /\ out'.sent # NoDatagram => elapsed' = 0
          /\ (elapsed > KeepAliveSecs /\ NoStuffText(out'.arg.rel))
               => (elapsed' = 0 /\ (HasRun(chan'.message, "Nop")
                                    \/ HasRun(chan'.reliable_buf, "Nop")))]_vars

\* =================================================================
\* MsgBuf alone: strings of the lengths around MAX_NET_STRING, single
\* bytes and clear() on the message buffer of a new channel.
\* =================================================================

StrOfLen(n) == Str("str" \o ToString(n), n)

MsgStrings ==
    { StrOfLen(n) : n \in {0, 1, MAX_NET_STRING - 1, MAX_NET_STRING,
                           MAX_NET_STRING + 1, 2 * MAX_NET_STRING} }

MsgWriteString ==
    /\ Len(chan.message) < MaxMsgRuns
    /\ \E str \in MsgStrings :
         LET w == write_string(chan.message, str)
         IN /\ chan' = [chan EXCEPT !.message = w.buf]
            /\ last' = Last("write_string", w.ok, str)
    /\ UNCHANGED <<queued, panicked, netVars, sessVars>>

MsgWriteU8 ==
    /\ Len(chan.message) < MaxMsgRuns
    /\ chan' = [chan EXCEPT !.message = write_u8(@, "StringCmd")]
    /\ last' = Last("write_u8", TRUE, NoDatagram)
    /\ UNCHANGED <<queued, panicked, netVars, sessVars>>

\* clear(): the cursor is rewound
MsgClear ==
    /\ chan.message # <<>>
    /\ chan' = [chan EXCEPT !.message = <<>>]
    /\ last' = Last("clear", TRUE, NoDatagram)
    /\ UNCHANGED <<queued, panicked, netVars, sessVars>>

MsgBufNext == MsgWriteString \/ MsgWriteU8 \/ MsgClear

SpecMsgBuf == Init /\ [][MsgBufNext]_vars

\* C16: write_string with a string longer than 2048 bytes fails and appends
\* exactly one zero byte and none of the string's bytes; with a string of at
\* most 2048 bytes (2048 included) it succeeds and appends the string's
\* bytes and then one zero byte; what was written before is unchanged.
C16_WriteString ==
    [][MsgWriteString
       => LET str == last'.d
              before == chan.message
              after == chan'.message
          IN IF str.len > 2048
             THEN /\ ~last'.ret
                  /\ after = Append(before, Run("NUL", 1))
                  /\ BufLen(after) = BufLen(before) + 1
             ELSE /\ last'.ret
                  /\ after = before
                       \o (IF str.len = 0 THEN <<>> ELSE <<Run(str.text, str.len)>>)
                       \o <<Run("NUL", 1)>>
                  /\ BufLen(after) = BufLen(before) + str.len + 1]_vars

\* a string of 2049 bytes was refused and then one of 2048 bytes written
C16_Witness ==
    /\ last.op = "write_string"
    /\ last.ret
    /\ chan.message = <<Run("NUL", 1), Run("str2048", 2048), Run("NUL", 1)>>

\* =================================================================
\* The application queues commands without calling pump: connect, then
\* send_command with strings of the lengths around MAX_NET_STRING.
\* =================================================================

FillCmds ==
    { StrOfLen(n) : n \in {1, 3, MAX_NET_STRING - 1, MAX_NET_STRING,
                           MAX_NET_STRING + 1} }

FillConnect ==
    /\ ~connected
    /\ \E a \in {Answer("text", <<"client_connect">>)} :
         Connected(connect(TheSession, Vanilla, IoOk, a), a)
    /\ UNCHANGED <<pc, chanVars>>

FillSendCommand ==
    /\ Len(chan.message) < MaxFillRuns
    /\ \E cmd \in FillCmds :
         LET r == send_command(TheSession, cmd)
         IN Returned("send_command", r, IF r.ok THEN "Some" ELSE "None", cmd)
    /\ UNCHANGED <<pc, panicked, chanVars>>

FillNext == FillConnect \/ FillSendCommand

SpecFill == SessionInit /\ [][FillNext]_vars

\* C17: The message buffer has a fixed maximum capacity of 4096 bytes: after
\* any sequence of send_command, send_result_command and keep-alive Nop
\* writes between transmits it never holds more than 4096 bytes.  The buffer
\* is a cursor over a vector that grows, and send_command only limits the
\* single string, so this does not hold.
C17_MessageWithinCapacity == BufLen(chan.message) <= 4096

\* C18: When a send or a recv inside pump returns a system error, pump
\* returns the error and the session (connected, the channel's sequences
\* and toggles, message, reliable_buf, the keep-alive timer) is as it was
\* when the turn of the loop that failed began.  recv is the first thing a
\* turn does, but send comes last, after process, parse_command, send_nop
\* and transmit have changed the session, so this does not hold of send.
C18_IoErrorChangesNothing ==
    [][((PumpTurn \/ PumpRecvFails) /\ out'.ret \in {"SendError", "RecvError"})
       => (pc' = "idle" /\ UNCHANGED sessionState)]_vars

\* the half that holds: a failed recv ends pump and changes nothing
RecvErrorChangesNothing ==
    [][PumpRecvFails
       => (out'.ret = "RecvError" /\ pc' = "idle" /\ UNCHANGED sessionState)]_vars

\* a failed send ends pump with the error
SendErrorIsReturned ==
    [][(PumpTurn /\ out'.ret = "SendError") => pc' = "idle"]_vars

\* C19: pump returns to its caller the events decoded from the datagrams it
\* processed, in decode order.  Stated of the return: when pump returns Ok
\* after a turn of its loop that decoded events, what it returns ends with
\* those events.  pump's type is Result<(), Error> and the list that
\* parse_command returns is dropped, so this does not hold.
C19_PumpReturnsEvents ==
    [][(PumpDone /\ out.ret = "next")
       => /\ Len(out'.events) >= Len(out.events)
          /\ SubSeq(out'.events, Len(out'.events) - Len(out.events) + 1,
                    Len(out'.events)) = out.events]_vars

\* a datagram without the 0xFFFFFFFF prefix
NoPrefix(a) == a.kind = "noprefix"

\* a datagram from another address than the server's
Foreign(a) == a.src = "other"

\* C20: recv_connectionless returns a payload only for a datagram that
\* begins with 0xFF 0xFF 0xFF 0xFF; a datagram without the prefix yields
\* failure (None); and while the session is not connected a datagram from
\* another address than the configured server address is dropped (None)
\* whatever it holds.  Stated of status(), which returns what
\* recv_connectionless returns.  Not connected, the source is compared with
\* server_address.parse().unwrap(): a server address that is a host name
\* is sent to by oob_print but is no SocketAddr, so the read panics instead
\* of failing or dropping.
C20_RecvConnectionless ==
    [][Status
       => /\ out'.ret = "Some" => out'.arg.kind \in {"text"}
          /\ NoPrefix(out'.arg) => out'.ret = "None"
          /\ (~connected /\ Foreign(out'.arg)) => out'.ret = "None"]_vars

\* the part that holds of every session: a payload only with the prefix
PayloadOnlyWithPrefix ==
    [][Status => (out'.ret = "Some" => out'.arg.kind = "text")]_vars

\* with a literal server address the whole of C20 holds
LiteralAddressDrops ==
    [][(Status /\ server_address = "literal")
       => /\ NoPrefix(out'.arg) => out'.ret = "None"
          /\ (~connected /\ Foreign(out'.arg)) => out'.ret = "None"]_vars

\* connected, the address is not parsed and a datagram without the prefix
\* fails
ConnectedNoPrefixFails ==
    [][(Status /\ connected /\ NoPrefix(out'.arg)) => out'.ret = "None"]_vars

\* status() dropped a datagram of another address that held a good answer
ForeignDropped ==
    /\ out.op = "status" /\ out.ret = "None"
    /\ ~connected /\ Foreign(out.arg) /\ out.arg.kind = "text"

\* status() panicked on the datagram of another address
ForeignPanicked ==
    /\ out.op = "status" /\ out.ret = "panic"
    /\ ~connected /\ Foreign(out.arg) /\ server_address = "hostname"

\* =================================================================
\* objects.rs: the decoding of SpawnBaseline (parse_baseline).
\* A cursor is [bytes, pos, seek_end]: pos bytes have been consumed.  A
\* read of n bytes that finds fewer fails; std's Cursor::read_exact then
\* either leaves the position (older toolchains) or puts it at the end
\* (newer ones): seek_end tells which.
\* =================================================================

\* EntityStateBits
ORIGIN1 == 1
ORIGIN2 == 2
ANGLE2 == 4
ANGLE3 == 8
FRAME8 == 16
EVENT == 32
MOREBITS1 == 128
NUMBER16 == 256
ORIGIN3 == 512
ANGLE1 == 1024
MODEL == 2048
RENDERFX8 == 4096
EFFECTS8 == 16384
MOREBITS2 == 32768
SKIN8 == 65536
FRAME16 == 131072
RENDERFX16 == 262144
EFFECTS16 == 524288
MODEL2 == 1048576
MODEL3 == 2097152
MODEL4 == 4194304
MOREBITS3 == 8388608
OLDORIGIN == 16777216
SKIN16 == 33554432
SOUND == 67108864
SOLID == 134217728

\* bits & flag != 0
Has(bits, flag) == (bits \div flag) % 2 = 1

Cursor(bytes, pos, seek_end) == [bytes |-> bytes, pos |-> pos, seek_end |-> seek_end]

\* Option<T>: None is <<>>, Some(v) is <<v>>
None == <<>>
Some(v) == <<v>>

\* read_exact of n bytes: [ok, b, cur], b the bytes read
read_exact(cur, n) ==
    IF cur.pos + n <= Len(cur.bytes)
    THEN [ok |-> TRUE, b |-> SubSeq(cur.bytes, cur.pos + 1, cur.pos + n),
          cur |-> [cur EXCEPT !.pos = @ + n]]
    ELSE [ok |-> FALSE, b |-> <<>>,
          cur |-> [cur EXCEPT !.pos = IF cur.seek_end THEN Len(cur.bytes) ELSE @]]

\* the reads of byteorder, little endian: [ok, v, cur]
Read(r, v) == [ok |-> r.ok, v |-> v, cur |-> r.cur]

read_u8(cur) ==
    LET r == read_exact(cur, 1) IN Read(r, IF r.ok THEN r.b[1] ELSE 0)

read_i8(cur) ==
    LET r == read_u8(cur) IN Read(r, IF r.v >= 128 THEN r.v - 256 ELSE r.v)

read_u16(cur) ==
    LET r == read_exact(cur, 2)
    IN Read(r, IF r.ok THEN r.b[1] + 256 * r.b[2] ELSE 0)

read_i16(cur) ==
    LET r == read_u16(cur) IN Read(r, IF r.v >= 32768 THEN r.v - 65536 ELSE r.v)

\* a u32 is kept as its four bytes, the lowest first
U32(b0, b1, b2, b3) == <<b0, b1, b2, b3>>

read_u32(cur) ==
    LET r == read_exact(cur, 4)
    IN Read(r, IF r.ok THEN U32(r.b[1], r.b[2], r.b[3], r.b[4]) ELSE U32(0, 0, 0, 0))

\* u8 and u16 .into() u32
u32_from_u8(v) == U32(v, 0, 0, 0)
u32_from_u16(v) == U32(v % 256, v \div 256, 0, 0)

\* parse_coord is u16 / 8.0 and parse_angle is u8 * 360.0 / 256.0: the
\* value is kept as numerator and denominator
Ratio(n, d) == [num |-> n, den |-> d]

\* what reading one field gives: stop (the ? operator returned None from
\* parse_delta_entity), the field's value and the cursor after it
Field(stop, val, cur) == [stop |-> stop, val |-> val, cur |-> cur]

\* a read followed by ?: Some(value) or the whole parse stops
Must(r, val) == Field(~r.ok, IF r.ok THEN Some(val) ELSE None, r.cur)

\* a read whose failure is the field's own None
May(r, val) == Field(FALSE, IF r.ok THEN Some(val) ELSE None, r.cur)

parse_coord(cur) ==
    LET r == read_u16(cur) IN May(r, Ratio(r.v, 8))

parse_angle(cur) ==
    LET r == read_u8(cur) IN May(r, Ratio(r.v * 360, 256))

\* frame with both bits set reads the i16 only (read_frame_narrow)
read_frame_narrow(bits, cur) ==
    IF Has(bits, FRAME8) /\ Has(bits, FRAME16)
    THEN LET r == read_i16(cur) IN Must(r, r.v)
    ELSE IF Has(bits, FRAME8)
    THEN LET r == read_u8(cur) IN Must(r, r.v)
    ELSE IF Has(bits, FRAME16)
    THEN LET r == read_i16(cur) IN Must(r, r.v)
    ELSE Field(FALSE, None, cur)

\* frame: both bits set, a byte is read and dropped and then the i16
read_frame(bits, cur) ==
    IF Has(bits, FRAME8) /\ Has(bits, FRAME16)
    THEN LET skip == read_u8(cur)
         IN IF ~skip.ok THEN Field(TRUE, None, skip.cur)
            ELSE LET r == read_i16(skip.cur) IN Must(r, r.v)
    ELSE IF Has(bits, FRAME8)
    THEN LET r == read_u8(cur) IN Must(r, r.v)
    ELSE IF Has(bits, FRAME16)
    THEN LET r == read_i16(cur) IN Must(r, r.v)
    ELSE Field(FALSE, None, cur)

\* skin, effects and render_fx: both bits a u32, one bit a u8 or a u16
read_wide(bits, f8, f16, cur) ==
    IF Has(bits, f8) /\ Has(bits, f16)
    THEN LET r == read_u32(cur) IN Must(r, r.v)
    ELSE IF Has(bits, f8)
    THEN LET r == read_u8(cur) IN Must(r, u32_from_u8(r.v))
    ELSE IF Has(bits, f16)
    THEN LET r == read_u16(cur) IN Must(r, u32_from_u16(r.v))
    ELSE Field(FALSE, None, cur)

\* a field of one byte read with ?
read_model(bits, flag, cur) ==
    IF Has(bits, flag)
    THEN LET r == read_u8(cur) IN Must(r, r.v)
    ELSE Field(FALSE, None, cur)

\* the fields of DeltaEntity in the order parse_delta_entity reads them
FieldNames ==
    << "model_index", "model_index2", "model_index3", "model_index4",
       "frame", "skin", "effects", "render_fx",
       "origin0", "origin1", "origin2", "angle0", "angle1", "angle2",
       "old_origin0", "old_origin1", "old_origin2", "sound", "event", "solid" >>

\* the bits that announce a field
FieldBits(name) ==
    CASE name = "model_index" -> {MODEL}
      [] name = "model_index2" -> {MODEL2}
      [] name = "model_index3" -> {MODEL3}
      [] name = "model_index4" -> {MODEL4}
      [] name = "frame" -> {FRAME8, FRAME16}
      [] name = "skin" -> {SKIN8, SKIN16}
      [] name = "effects" -> {EFFECTS8, EFFECTS16}
      [] name = "render_fx" -> {RENDERFX8, RENDERFX16}
      [] name = "origin0" -> {ORIGIN1}
      [] name = "origin1" -> {ORIGIN2}
      [] name = "origin2" -> {ORIGIN3}
      [] name = "angle0" -> {ANGLE1}
      [] name = "angle1" -> {ANGLE2}
      [] name = "angle2" -> {ANGLE3}
      [] name \in {"old_origin0", "old_origin1", "old_origin2"} -> {OLDORIGIN}
      [] name = "sound" -> {SOUND}
      [] name = "event" -> {EVENT}
      [] name = "solid" -> {SOLID}

\* one field of the struct literal of parse_delta_entity
read_field(name, bits, cur) ==
    CASE name = "model_index" -> read_model(bits, MODEL, cur)
      [] name = "model_index2" -> read_model(bits, MODEL2, cur)
      [] name = "model_index3" -> read_model(bits, MODEL3, cur)
      [] name = "model_index4" -> read_model(bits, MODEL4, cur)
      [] name = "frame" -> read_frame(bits, cur)
      [] name = "skin" -> read_wide(bits, SKIN8, SKIN16, cur)
      [] name = "effects" -> read_wide(bits, EFFECTS8, EFFECTS16, cur)
      [] name = "render_fx" -> read_wide(bits, RENDERFX8, RENDERFX16, cur)
      [] name \in {"origin0", "origin1", "origin2",
                   "old_origin0", "old_origin1", "old_origin2"} ->
           IF \E f \in FieldBits(name) : Has(bits, f)
           THEN parse_coord(cur) ELSE Field(FALSE, None, cur)
      [] name \in {"angle0", "angle1", "angle2"} ->
           IF \E f \in FieldBits(name) : Has(bits, f)
           THEN parse_angle(cur) ELSE Field(FALSE, None, cur)
      [] name = "sound" ->
           IF Has(bits, SOUND)
           THEN LET r == read_u8(cur) IN May(r, r.v)
           ELSE Field(FALSE, None, cur)
      [] name = "event" ->
           IF Has(bits, EVENT)
           THEN LET r == read_u8(cur) IN Must(r, r.v)
           ELSE Field(FALSE, Some(0), cur)
      [] name = "solid" ->
           IF Has(bits, SOLID)
           THEN LET r == read_u16(cur) IN Must(r, u32_from_u16(r.v))
           ELSE Field(FALSE, None, cur)

\* parse_delta_entity returns [ok, ev, cur, spans]: ev the DeltaEntity (its
\* fields by name, when ok), spans the cursor positions before and after
\* each field read
DeltaEntity(number, fields) == [op |-> "DeltaEntity", number |-> number, fields |-> fields]

Parsed(ok, ev, cur, spans) == [ok |-> ok, ev |-> ev, cur |-> cur, spans |-> spans]

\* the fold over the fields once field i has been read as f
RECURSIVE delta_fields(_, _, _, _, _, _)
delta_field_read(i, entnum, bits, f, fields, spans, from) ==
    LET sp == Append(spans, [name |-> FieldNames[i], from |-> from, to |-> f.cur.pos])
    IN IF f.stop THEN Parsed(FALSE, None, f.cur, sp)
       ELSE delta_fields(i + 1, entnum, bits, f.cur,
                         Append(fields, f.val), sp)

delta_fields(i, entnum, bits, cur, fields, spans) ==
    IF i > Len(FieldNames)
    THEN Parsed(TRUE, Some(DeltaEntity(entnum, fields)), cur, spans)
    ELSE delta_field_read(i, entnum, bits, read_field(FieldNames[i], bits, cur),
                          fields, spans, cur.pos)

parse_delta_entity(entnum, bits, cur) ==
    delta_fields(1, entnum, bits, cur, <<>>, <<>>)

\* parse_entity_bits: [ok, total, number, cur]
EntityBits(ok, total, number, cur) ==
    [ok |-> ok, total |-> total, number |-> number, cur |-> cur]

\* total |= (read_u8 as u32) << shift, when the bit more is set in total
more_bits(e, more, weight) ==
    IF ~e.ok \/ ~Has(e.total, more) THEN e
    ELSE LET r == read_u8(e.cur)
         IN EntityBits(r.ok, e.total + r.v * weight, 0, r.cur)

entity_number(e) ==
    IF ~e.ok THEN e
    ELSE LET r == IF Has(e.total, NUMBER16) THEN read_i16(e.cur) ELSE read_i8(e.cur)
         IN EntityBits(r.ok, e.total, r.v, r.cur)

parse_entity_bits(cur) ==
    LET r == read_u8(cur)
    IN entity_number(
         more_bits(more_bits(more_bits(EntityBits(r.ok, r.v, 0, r.cur),
                                       MOREBITS1, 256),
                             MOREBITS2, 65536),
                   MOREBITS3, 16777216))

\* parse_baseline
baseline_of(e) ==
    IF ~e.ok THEN Parsed(FALSE, None, e.cur, <<>>)
    ELSE parse_delta_entity(e.number, e.total, e.cur)

parse_baseline(cur) == baseline_of(parse_entity_bits(cur))

\* -----------------------------------------------------------------
\* The bytes after a SpawnBaseline op: the bits of a set of flags with the
\* MOREBITS flags they need, then the bytes of a pattern, cut at every
\* length up to MaxEntBytes.
\* -----------------------------------------------------------------

EntityFlags ==
    {FRAME8, FRAME16, SKIN8, SKIN16, MODEL, ORIGIN1, SOUND, EVENT, SOLID, NUMBER16}

RECURSIVE SumOf(_)
SumOf(S) ==
    IF S = {} THEN 0
    ELSE LET x == CHOOSE x \in S : TRUE IN x + SumOf(S \ {x})

WithMoreBits(t) ==
    t + (IF t >= 256 THEN MOREBITS1 ELSE 0)
      + (IF t >= 65536 THEN MOREBITS2 ELSE 0)
      + (IF t >= 16777216 THEN MOREBITS3 ELSE 0)

BitsBytes(t) ==
    <<t % 256>>
    \o (IF Has(t, MOREBITS1) THEN <<(t \div 256) % 256>> ELSE <<>>)
    \o (IF Has(t, MOREBITS2) THEN <<(t \div 65536) % 256>> ELSE <<>>)
    \o (IF Has(t, MOREBITS3) THEN <<(t \div 16777216) % 256>> ELSE <<>>)

\* the bytes that follow the bits: 1, 2, 3, ... or 255, 254, 253, ...
PatternByte(pattern, i) == IF pattern = "low" THEN i ELSE 256 - i

EntityBytes(flags, pattern, n) ==
    SubSeq(BitsBytes(WithMoreBits(SumOf(flags)))
             \o [i \in 1..MaxEntBytes |-> PatternByte(pattern, i)],
           1, n)

EntityInputs ==
    { Cursor(EntityBytes(flags, pattern, n), 0, seek_end) :
        flags \in SUBSET EntityFlags, pattern \in {"low", "high"},
        n \in 0..MaxEntBytes, seek_end \in BOOLEAN }

EntityInit ==
    /\ chan = NetChanVanilla_new(TRUE, QPort)
    /\ last = Last("new", FALSE, NoDatagram)
    /\ queued = 0
    /\ panicked = FALSE
    /\ peer = NetChanVanilla_new(FALSE, 0)
    /\ c2s = {}
    /\ s2c = {}
    /\ sentLog = <<>>
    /\ recvLog = <<>>
    /\ connected = FALSE
    /\ last_precache_value = 0
    /\ elapsed = 0
    /\ pc = "idle"
    /\ server_address = "literal"
    /\ \E cur \in EntityInputs : out = Out("parse_baseline", "input", cur, None, <<>>)

Baselined(r, cur) ==
    out' = Out("parse_baseline", IF r.ok THEN "Some" ELSE "None", cur, r.ev, r.spans)

\* parse_command's arm of SpawnBaseline on the bytes after the op
ParseBaseline ==
    /\ out.ret = "input"
    /\ Baselined(parse_baseline(out.arg), out.arg)
    /\ UNCHANGED <<chan, last, queued, panicked, netVars, connected,
                   last_precache_value, elapsed, pc, server_address>>

EntityNext == ParseBaseline

SpecEntity == EntityInit /\ [][EntityNext]_vars

\* the bits parse_entity_bits read of the datagram of the last call
BitsRead == parse_entity_bits(out.arg).total

FieldIndex(name) == CHOOSE i \in 1..Len(FieldNames) : FieldNames[i] = name

\* the event's field and the bytes that were read for it
FieldOf(name) == out.events[1].fields[FieldIndex(name)]
SpanOf(name) == out.sent[FieldIndex(name)]
Consumed(name) == SpanOf(name).to - SpanOf(name).from
BytesOf(name) == SubSeq(out.arg.bytes, SpanOf(name).from + 1, SpanOf(name).to)

\* a little-endian i16 of two bytes
I16(lo, hi) == IF hi >= 128 THEN lo + 256 * hi - 65536 ELSE lo + 256 * hi

\* the width rule of C21 for a field announced by the bits f8 and f16: both
\* takes wide bytes, f8 alone one byte, f16 alone two, neither none and the
\* field is absent
WidthRule(name, f8, f16, wide) ==
    /\ Consumed(name) = IF Has(BitsRead, f8) /\ Has(BitsRead, f16) THEN wide
                        ELSE IF Has(BitsRead, f8) THEN 1
                        ELSE IF Has(BitsRead, f16) THEN 2 ELSE 0
    /\ (FieldOf(name) = None) <=> (~Has(BitsRead, f8) /\ ~Has(BitsRead, f16))

\* C21: In entity delta decoding, for every combination of the width bits:
\* FRAME8 and FRAME16 both set, frame takes 3 bytes and is the i16 of the
\* last two; SKIN8 and SKIN16 both set, skin takes 4 bytes read as one u32;
\* only the 8-bit bit, 1 byte; only the 16-bit bit, 2 bytes; neither, no
\* byte and the field is absent.  Stated of every DeltaEntity that
\* parse_baseline returns.
C21_FrameAndSkinWidths ==
    (out.ret = "Some")
    => /\ WidthRule("frame", FRAME8, FRAME16, 3)
       /\ WidthRule("skin", SKIN8, SKIN16, 4)
       /\ (Has(BitsRead, FRAME8) /\ Has(BitsRead, FRAME16))
            => FieldOf("frame") = Some(I16(BytesOf("frame")[2], BytesOf("frame")[3]))
       /\ (Has(BitsRead, SKIN8) /\ Has(BitsRead, SKIN16))
            => FieldOf("skin") = Some(BytesOf("skin"))

\* a baseline with all four width bits was decoded: frame is negative (the
\* i16 of 0xFE 0xFD after the dropped byte) and skin is four bytes
C21_Witness ==
    /\ out.ret = "Some"
    /\ Has(BitsRead, FRAME8) /\ Has(BitsRead, FRAME16)
    /\ Has(BitsRead, SKIN8) /\ Has(BitsRead, SKIN16)
    /\ FieldOf("frame") # None /\ FieldOf("frame")[1] < 0
    /\ Consumed("frame") = 3 /\ Consumed("skin") = 4

\* only the 8-bit bits: one byte each
C21_WitnessNarrow ==
    /\ out.ret = "Some"
    /\ Has(BitsRead, FRAME8) /\ ~Has(BitsRead, FRAME16)
    /\ Has(BitsRead, SKIN16) /\ ~Has(BitsRead, SKIN8)
    /\ Consumed("frame") = 1 /\ Consumed("skin") = 2

\* the fields whose failed read is no ? but the field's own None
SoftFields ==
    {"origin0", "origin1", "origin2", "angle0", "angle1", "angle2",
     "old_origin0", "old_origin1", "old_origin2", "sound"}

\* the field is in the event iff one of its bits is set
PresentIffBit(name) ==
    (FieldOf(name) # None) <=> (\E f \in FieldBits(name) : Has(BitsRead, f))

\* C28: If the datagram ends before a fixed-width field that a command's
\* payload requires (for SpawnBaseline any field whose presence bit is
\* set, such as the sound byte when SOUND is set), no event is produced
\* for the command and decoding stops: a DeltaEntity is produced only when
\* every field whose bit is set was read, so a field is present in it iff
\* its bit is set (event, which is no Option, aside).  The reads of sound,
\* of the origins and of the angles are not followed by ?, so a datagram
\* that ends before them gives a DeltaEntity without the field.
C28_ShortReadYieldsNoEvent ==
    (out.ret = "Some")
    => \A i \in 1..Len(FieldNames) :
         FieldNames[i] # "event" => PresentIffBit(FieldNames[i])

\* the part that holds: the fields read with ? are present iff their bit
\* is set
HardFieldsPresentIffBit ==
    (out.ret = "Some")
    => \A i \in 1..Len(FieldNames) :
         FieldNames[i] \notin (SoftFields \cup {"event"})
           => PresentIffBit(FieldNames[i])

\* and a datagram that ends within the bits or the number gives no event
ShortBitsYieldNoEvent ==
    (out.ret # "input" /\ ~parse_entity_bits(out.arg).ok) => out.ret = "None"

\* a DeltaEntity came of a datagram that ended before the sound byte
SoundLost ==
    /\ out.ret = "Some"
    /\ Has(BitsRead, SOUND)
    /\ FieldOf("sound") = None

\* =================================================================
\* More of the channel (Spec, SpecPeer)
\* =================================================================

\* the packet of the last transmit carries the reliable flag
FlaggedReliable == high_bit(last.d.hdr[1])

\* C22: In every packet built by transmit, in any reachable state of the
\* channel (packets with arbitrary ack words accepted), the high bit of the
\* first header word is set iff a non-empty reliable payload (what
\* reliable_buf holds) is attached; a retransmit is chosen only when
\* reliable_buf holds data.  transmit's first test looks at
\* incoming_acknowledged and the two toggles only, not at reliable_buf, so
\* after an ack word with the high bit set and a number above
\* last_sent_reliable_sequence the flag is set on a packet without payload.
C22_ReliableFlagIffPayload ==
    last.op = "transmit" => (FlaggedReliable <=> last.d.rel # <<>>)

\* the direction that holds: a payload is attached only under the flag,
\* and it is what reliable_buf holds
PayloadOnlyWhenFlagged ==
    (last.op = "transmit" /\ last.d.rel # <<>>)
    => (FlaggedReliable /\ last.d.rel = chan.reliable_buf)

\* the flag was set on a packet that carries no reliable payload
FlagWithoutPayload ==
    /\ last.op = "transmit"
    /\ FlaggedReliable
    /\ last.d.rel = <<>>
    /\ chan.reliable_buf = <<>>

\* C23: When process accepts a packet, reliable_buf is emptied if the
\* packet's ack high bit equals reliable_sequence and is left unchanged
\* otherwise; no other operation (a rejected packet, transmit, queueing)
\* empties reliable_buf.
C23_AckEmptiesReliableBuf ==
    [][IF last'.op = "process" /\ last'.ret
       THEN chan'.reliable_buf =
              IF high_bit(last'.d.hdr[2]) = chan.reliable_sequence
              THEN <<>> ELSE chan.reliable_buf
       ELSE chan.reliable_buf # <<>> => chan'.reliable_buf # <<>>]_vars

\* a packet whose ack bit differs from the toggle was accepted and the
\* payload in flight is kept
C23_Witness ==
    /\ last.op = "process" /\ last.ret
    /\ high_bit(last.d.hdr[2]) # chan.reliable_sequence
    /\ chan.reliable_buf # <<>>

\* a packet whose ack bit equals the toggle was accepted after a payload
\* was sent: reliable_buf is empty again
C23_WitnessEmptied ==
    /\ last.op = "process" /\ last.ret
    /\ high_bit(last.d.hdr[2]) = chan.reliable_sequence
    /\ chan.reliable_buf = <<>>
    /\ sentLog = <<>> /\ chan.last_sent_reliable_sequence > 0

\* the step is process accepting a packet with the reliable flag
AcceptsReliable == last'.op = "process" /\ last'.ret /\ high_bit(last'.d.hdr[1])

\* C24: is_reliable_ack_pending is true exactly when a packet with the
\* reliable flag has been accepted by process since the last transmit (or
\* since creation): it is false at creation, accepting a packet with the
\* reliable flag sets it, every transmit clears it and nothing else changes
\* it.
C24_AckPending ==
    /\ ~chan.is_reliable_ack_pending
    /\ [][chan'.is_reliable_ack_pending =
             IF AcceptsReliable THEN TRUE
             ELSE IF last'.op = "transmit" THEN FALSE
             ELSE chan.is_reliable_ack_pending]_vars

\* a packet without the flag was accepted after one with it, and no
\* transmit came between: the ack is still pending
C24_Witness ==
    /\ last.op = "process" /\ last.ret /\ ~high_bit(last.d.hdr[1])
    /\ chan.is_reliable_ack_pending
    /\ chan.incoming_sequence > 1

\* C25: The high bit of the second header word of every transmitted
\* packet equals incoming_reliable_sequence, and incoming_reliable_sequence
\* is the parity (odd = set) of the number of packets with the reliable
\* flag that process has accepted: it is clear at creation, each such
\* packet flips it, and nothing else (a rejected packet, one without the
\* flag, transmit, queueing) changes it.
C25_AckBitIsParity ==
    /\ ~chan.incoming_reliable_sequence
    /\ [][/\ chan'.incoming_reliable_sequence =
               IF AcceptsReliable THEN ~chan.incoming_reliable_sequence
               ELSE chan.incoming_reliable_sequence
          /\ last'.op = "transmit"
               => high_bit(last'.d.hdr[2]) = chan'.incoming_reliable_sequence]_vars

\* a packet was transmitted with the ack bit set, after a packet with the
\* reliable flag was accepted and then one without it
C25_Witness ==
    /\ last.op = "transmit"
    /\ high_bit(last.d.hdr[2])
    /\ chan.incoming_reliable_sequence
    /\ chan.incoming_sequence > 1

\* and one with the ack bit clear again, after a second packet with the flag
C25_WitnessEven ==
    /\ last.op = "transmit"
    /\ ~high_bit(last.d.hdr[2])
    /\ chan.outgoing_sequence > 2
    /\ chan.incoming_sequence > 1

\* =================================================================
\* More of the session (SpecSession)
\* =================================================================

\* a line that begins with precache
PrecacheLine(l) == l.kind \in {"precache", "precache_junk", "precache_short"}

\* the number of a precache line: what parses from byte offset 9, else 0
PrecacheValue(l) == IF l.kind = "precache" THEN l.arg ELSE 0

\* the step is a turn on an accepted datagram whose first command is a
\* stuff-text that begins with a precache line
PrecacheTurn ==
    /\ AcceptedTurn
    /\ out'.arg.rel # <<>>
    /\ out'.arg.rel[1].op = OpStuffText
    /\ PrecacheLine(out'.arg.rel[1].lines[1])

\* what the handler of the precache line l leaves: the number is stored,
\* begin <number> is queued (in message, or in reliable_buf when the turn's
\* transmit took it) and the timer is at 0
PrecacheHandled(l) ==
    /\ last_precache_value' = PrecacheValue(l)
    /\ \/ HasRun(chan'.message, StrBegin(PrecacheValue(l)).text)
       \/ HasRun(chan'.reliable_buf, StrBegin(PrecacheValue(l)).text)
    /\ elapsed' = 0

\* C27: For every stuff-text line that begins with precache, a line with
\* nothing after the word included, the handler stores the decimal number
\* parsed from byte offset 9 as the precache sequence (0 when it is absent
\* or does not parse), queues the StringCmd begin <sequence> on message and
\* resets the keep-alive timer.  bytes[9..] of the 8 byte line precache is
\* out of range, so that line ends the program instead.
C27_PrecacheBegins ==
    [][PrecacheTurn
       => (out'.ret # "panic" /\ PrecacheHandled(out'.arg.rel[1].lines[1]))]_vars

\* the part that holds: a precache line of 9 bytes or more is handled so
PrecacheWithArgumentBegins ==
    [][(PrecacheTurn /\ out'.arg.rel[1].lines[1].kind # "precache_short")
       => (out'.ret # "panic" /\ PrecacheHandled(out'.arg.rel[1].lines[1]))]_vars

\* the line precache alone ended the program
BarePrecachePanics ==
    /\ out.op = "pump" /\ out.ret = "panic" /\ panicked
    /\ out.arg.rel # <<>>
    /\ out.arg.rel[1].op = OpStuffText
    /\ out.arg.rel[1].lines[1].kind = "precache_short"

\* a line precache 1 and one precache <junk> were handled
PrecacheStored ==
    /\ out.op = "pump" /\ out.ret = "next"
    /\ last_precache_value = 1
    /\ HasRun(chan.message \o chan.reliable_buf, "begin 1")

\* the commands of a datagram, and the datagram cut after its first k
\* commands
CmdsOf(d) == d.rel \o d.unrel

CutAfter(d, k) ==
    [d EXCEPT !.rel = SubSeq(CmdsOf(d), 1, IF k < Len(CmdsOf(d)) THEN k ELSE Len(CmdsOf(d))),
              !.unrel = <<>>]

\* the command yields an event: Disconnect, Reconnect and CenterPrint
\* always, Print, ServerData, ConfigString and SpawnBaseline when the
\* payload is well formed, StuffText unless a cmd line is no UTF-8; the ops
\* that are not decoded, Nop and unknown op-codes never
YieldsEvent(c) ==
    CASE c.op \in {OpDisconnect, OpReconnect, OpCenterPrint} -> TRUE
      [] c.op \in {OpPrint, OpServerData, OpConfigString, OpSpawnBaseline} -> c.ok
      [] c.op = OpStuffText -> \A i \in 1..Len(c.lines) : c.lines[i].kind # "badutf8"
      [] OTHER -> FALSE

\* the turn on the datagram d with its send succeeding or not ends as this
\* step does
TurnEndsAs(d) ==
    \E send \in BOOLEAN :
       LET r == pump_turn(TheSession, d, [recv |-> TRUE, send |-> send])
       IN /\ SetSession(r.s)
          /\ out'.ret = r.ret
          /\ out'.events = r.events
          /\ out'.sent = r.sent

\* C26: parse_command stops at the first command that yields no event (an
\* op that is not decoded, a Nop, an unknown op-code, a malformed payload)
\* and returns Ok with exactly the events of the commands before it, in
\* order; the commands after it give no event and have no effect.  Stated
\* of the turns of pump on accepted datagrams: the events are the longest
\* run of commands from the first that each yield an event, no error is
\* returned of the decoding, and the turn ends as the turn on the datagram
\* cut after the command that stopped it.  The op byte 0 (C13) and the bare
\* precache line (C27) are left to their claims.
C26_StopsAtFirstNoEvent ==
    [][(/\ AcceptedTurn
        /\ out'.ret # "panic"
        /\ ~HasOp(CmdsOf(out'.arg), OpBad))
       => LET cmds == CmdsOf(out'.arg)
              n == Len(out'.events)
          IN /\ out'.ret # "InvalidInput"
             /\ n <= Len(cmds)
             /\ out'.events = SubSeq(cmds, 1, n)
             /\ \A i \in 1..n : YieldsEvent(cmds[i])
             /\ n < Len(cmds) => ~YieldsEvent(cmds[n + 1])
             /\ TurnEndsAs(CutAfter(out'.arg, n + 1))]_vars

\* a Nop and then a Disconnect came in one accepted datagram: no event, and
\* no disconnect is queued
C26_Witness ==
    /\ out.op = "pump" /\ out.ret = "next"
    /\ Len(out.arg.rel) = 2
    /\ out.arg.rel[1].op = 6
    /\ out.arg.rel[2].op = OpDisconnect
    /\ out.events = <<>>
    /\ ~HasRun(chan.message \o chan.reliable_buf, "disconnect")
    /\ chan.incoming_sequence > 0

\* a Print and then a Disconnect: both events, in order
C26_WitnessAll ==
    /\ out.op = "pump" /\ out.ret = "next"
    /\ Len(out.events) = 2
    /\ out.events[1].op = OpPrint
    /\ out.events[2].op = OpDisconnect
    /\ HasRun(chan.message \o chan.reliable_buf, "disconnect")

\* =================================================================
\* More of the two endpoints (SpecPeer)
\* =================================================================

\* C29: Of two NetChanVanilla endpoints (a client and a server) that
\* exchange the packets transmit builds over a network that loses and
\* reorders datagrams: each reliable payload the sender began is accepted
\* by the receiver's process, in a packet with the reliable flag, at most
\* once, and the payloads are accepted in the order they were begun (what
\* the receiver accepted so far is the first payloads begun, each once);
\* and the sender's reliable_buf is never emptied before the receiver has
\* accepted its payload (when it is empty, every payload begun has been
\* accepted).
C29_AcceptedOnceInOrder ==
    /\ Len(recvLog) <= Begun
    /\ recvLog = [i \in 1..Len(recvLog) |-> Payload(i)]
    /\ chan.reliable_buf = <<>> => Len(recvLog) = Begun

\* the first payload was sent twice (the first packet was lost or came
\* late), accepted once and then retired by the receiver's ack
C29_Witness ==
    /\ sentLog = <<Payload(1), Payload(1)>>
    /\ recvLog = <<Payload(1)>>
    /\ chan.reliable_buf = <<>>
    /\ chan.last_sent_reliable_sequence > 1

\* two payloads were accepted, in the order they were begun
C29_WitnessTwo ==
    /\ recvLog = <<Payload(1), Payload(2)>>
    /\ chan.reliable_buf # <<>>

\* the step is a turn of pump's loop on a connectionless datagram
OobTurn ==
    /\ pc = "pump"
    /\ out'.op = "pump"
    /\ out'.ret \notin {"Ok", "RecvError", "enter", "NotConnected"}
    /\ out'.arg = OobDatagram
    /\ PumpTurnOf(OobDatagram)

\* C30: A datagram that begins with the connectionless prefix 0xFF 0xFF
\* 0xFF 0xFF and arrives while the session is connected is not accepted by
\* the channel during pump: incoming_sequence is as it was, so that a
\* later channel packet with the next sequence number is accepted.  pump
\* hands every datagram to process, which reads the prefix as the sequence
\* word: the reliable flag and the number 0x7FFFFFFF, which is above every
\* incoming_sequence, so the datagram is accepted and no later packet is.
C30_OobNotAccepted ==
    [][OobTurn
       => /\ chan'.incoming_sequence = chan.incoming_sequence
          /\ process(chan', Datagram(<<chan.incoming_sequence + 1, 0>>,
                                     <<>>, <<>>, <<>>)).ret]_vars

\* after the connectionless datagram the channel packet with the next
\* sequence number is rejected
OobEndsChannel ==
    /\ out.op = "pump" /\ out.ret = "next"
    /\ out.arg = OobDatagram
    /\ chan.incoming_sequence = SeqMask
    /\ ~process(chan, Datagram(<<MaxIn, 0>>, <<>>, <<>>, <<>>)).ret

\* the channel's own packets go on being accepted in order
ChannelPacketAccepted ==
    [][(AcceptedTurn /\ out'.arg # OobDatagram)
       => chan'.incoming_sequence = low_bits(out'.arg.hdr[1])]_vars

\* =================================================================
\* The application queues commands and calls pump: connect, send_command
\* with short and long strings, and the turns of pump's loop, each of
\* which ends in transmit when should_transmit holds.
\* =================================================================

\* a sequence number the channel does not go beyond
MaxFlushSeq == 3

\* the strings of the application: with the op byte and the NUL they take
\* 5, MAX_NET_STRING - 6 and MAX_NET_STRING + 1 bytes of message
FlushCmds ==
    { StrOfLen(n) : n \in {3, MAX_NET_STRING - 8, MAX_NET_STRING - 1} }

\* the server's datagrams: one too short for a header, and under the
\* headers of a first packet and of a flagged later one that acknowledges
\* an empty body and a stuff-text that asks for the version
FlushDatagrams ==
    {NoDatagram}
    \cup {Datagram(hdr, <<>>, body, <<>>) :
            hdr \in {<<1, 0>>, <<MaxIn + HighBit, MaxIn + HighBit>>},
            body \in {<<>>, <<Cmd(OpStuffText, TRUE, <<Line("version", 0)>>)>>}}

FlushConnect ==
    /\ ~panicked
    /\ pc = "idle"
    /\ FillConnect

FlushSendCommand ==
    /\ ~panicked
    /\ pc = "idle"
    /\ Len(chan.message) < MaxFillRuns
    /\ \E cmd \in FlushCmds :
         LET r == send_command(TheSession, cmd)
         IN Returned("send_command", r, IF r.ok THEN "Some" ELSE "None", cmd)
    /\ UNCHANGED <<pc, panicked, chanVars>>

\* peek finds a datagram, recv returns it and send succeeds
FlushTurn ==
    /\ ~panicked
    /\ pc = "pump"
    /\ chan.outgoing_sequence < MaxFlushSeq
    /\ \E d \in FlushDatagrams :
         Pumped(pump_turn(TheSession, d, [recv |-> TRUE, send |-> TRUE]), d)
    /\ UNCHANGED chanVars

FlushNext ==
    \/ FlushConnect
    \/ FlushSendCommand
    \/ PumpEnter
    \/ FlushTurn
    \/ PumpDone
    \/ Tick

SpecFlush == SessionInit /\ [][FlushNext]_vars

\* C31: transmit never aborts: in every channel state reachable through
\* send_command, send_result_command, keep-alive Nop writes, process and
\* transmit the message fits reliable_buf when it is absorbed and the header
\* with the reliable payload fits the packet, so that transmit returns a
\* packet.  Nothing limits what message holds between two transmits, so
\* this does not hold: both unwrap()s of transmit fail in reachable states.
C31_TransmitNeverAborts == ~transmit(chan, <<>>).panic

\* pump ended in transmit's first unwrap(): message is larger than
\* reliable_buf
AbsorbAborts ==
    /\ panicked
    /\ out.op = "pump" /\ out.ret = "panic"
    /\ BufLen(chan.reliable_buf) = 0
    /\ BufLen(chan.message) > MAX_WRITEABLE_SIZE

\* pump ended in transmit's second unwrap(): message fits reliable_buf, but
\* not the packet after the header
PacketWriteAborts ==
    /\ panicked
    /\ out.op = "pump" /\ out.ret = "panic"
    /\ BufLen(chan.reliable_buf) = 0
    /\ BufLen(chan.message) <= MAX_WRITEABLE_SIZE
    /\ HeaderLen(chan) + BufLen(chan.message) > MAX_WRITEABLE_SIZE

\* transmit returns a packet whenever the header and what message and
\* reliable_buf hold fit the packet
FittingNeverAborts ==
    (/\ HeaderLen(chan) + BufLen(chan.message) <= MAX_WRITEABLE_SIZE
     /\ HeaderLen(chan) + BufLen(chan.reliable_buf) <= MAX_WRITEABLE_SIZE)
    => ~transmit(chan, <<>>).panic

\* pump aborts only in a turn that found more in message than fits the
\* packet after the header, and reliable_buf never holds that much
AbortsOnlyWhenOverfull ==
    /\ HeaderLen(chan) + BufLen(chan.reliable_buf) <= MAX_WRITEABLE_SIZE
    /\ panicked => HeaderLen(chan) + BufLen(chan.message) > MAX_WRITEABLE_SIZE

\* a turn sent a packet that carries a long string as its reliable payload
LongPayloadSent ==
    /\ out.op = "pump" /\ out.ret = "next"
    /\ out.sent # NoDatagram
    /\ BufLen(out.sent.rel) > MAX_NET_STRING
====
